---- MODULE Spec2Model ----
(***************************************************************************)
(* Link shortening and click analytics engine of dafedescribe/wey.         *)
(*                                                                         *)
(* The repository holds two revisions of LinkService:                      *)
(*   "linkService" : src/src/services/linkService.js                       *)
(*   "part002"     : src/unnamed/part_002 (with the SecurityService gate)  *)
(* Both are modelled; the variable impl says which revision is running.    *)
(* Every await of the JavaScript code is a scheduling point: the code      *)
(* between two awaits is one atomic action (Node.js run-to-completion).    *)
(***************************************************************************)
EXTENDS Integers, Sequences, FiniteSets, TLC

\* ------------------------------------------------------------------ bounds
MaxClickCalls == 3
MaxShortenCalls == 2
MaxTicks == 2
MaxRequests == 2

\* ------------------------------------------------------- program constants
MaxAttempts == 10
RateLimit == 10
MaxUrlLength == 2000
CodeSlice == 6
HourMs == 60 * 60 * 1000

Impls == {"linkService", "part002"}
TrackProcs == 1..2
Addresses == {"10.0.0.1", "10.0.0.2"}

VARIABLES
    impl,            \* which revision of LinkService runs
    uniqueIndex,     \* whether the store rejects a second row with the same short_code
                     \* (shortened_links) or the same phone_number (users)
    users,           \* table users: sequence of rows, id = index
    links,           \* table shortened_links: sequence of rows, id = index
    clicks,          \* table link_clicks: sequence of rows, id = index
    tr,              \* trackClick calls in flight: locals and position
    clickCalls,      \* number of trackClick calls started
    okClicks,        \* per link: trackClick calls that returned success
    failedClicks,    \* whether a trackClick call returned failure
    sh,              \* shortenUrl calls in flight: locals and position
    shortenCalls,    \* number of shortenUrl calls started
    lookedUp,        \* codes shortenUrl has looked up in the registry
    now,             \* Date.now()
    ticks,           \* number of clock advances
    rateLimitStore,  \* SecurityService.rateLimitStore: identity -> timestamps
    passed,          \* per identity: times of the rate checks that returned true, last hour
    ev,              \* isUrlSafe evaluations in flight
    server,          \* which definition of the GET /:shortCode route runs
    rq,              \* GET /:shortCode requests in flight: locals, position, response
    requests,        \* number of GET /:shortCode requests received
    pg,              \* the last answer to a statistics, preview or link list request
    bot              \* the WhatsApp side: connections started, last close, last event

schemaVars == <<impl, uniqueIndex>>
storeVars == <<users, links, clicks>>
clickVars == <<tr, clickCalls, okClicks, failedClicks>>
shortenVars == <<sh, shortenCalls, lookedUp>>
gateVars == <<now, ticks, rateLimitStore, passed>>
webVars == <<server, rq, requests, pg>>
vars == <<impl, uniqueIndex, users, links, clicks, tr, clickCalls, okClicks,
          failedClicks, sh, shortenCalls, lookedUp, now, ticks, rateLimitStore,
          passed, ev, server, rq, requests, pg, bot>>

\* ---------------------------------------------------------------- the bot
\* an inbound messages.upsert event that carries nothing
NoEventIn == [hasMessage |-> FALSE, remoteJid |-> "", fromMe |-> FALSE, type |-> "",
              text |-> ""]

\* no close seen
NoClose == [isBoom |-> FALSE, statusCode |-> 0]

\* after the first connectToWhatsApp: one connection started, nothing closed,
\* no event handled
IdleBot ==
    [connects |-> 1, closes |-> 0, lastClose |-> NoClose, reconnects |-> 0,
     event |-> NoEventIn, sent |-> 0, called |-> ""]

\* ------------------------------------------------------------ record store
\* supabase .single(): the row when exactly one row matches, otherwise
\* data = null (0 here; row ids start at 1).
Single(ids) == IF Cardinality(ids) = 1 THEN CHOOSE i \in ids : TRUE ELSE 0

\* Calls are anonymous: a new call takes the first slot that holds no call in
\* progress (a slot keeps the result of its last call until it is reused).
FreeSlot(procs, p) ==
    \A q \in DOMAIN procs : procs[q].pc \in {"idle", "done", "thrown"} => p <= q

\* ------------------------------------------------------------- short codes
\* base64url alphabet as indices: A-Z = 0..25, a-z = 26..51, 0-9 = 52..61,
\* '-' = 62, '_' = 63.
base64url(bytes) ==
    LET n == bytes[1] * 65536 + bytes[2] * 256 + bytes[3]
    IN  <<n \div 262144, (n \div 4096) % 64, (n \div 64) % 64, n % 64>>

slice(s, from, to) ==
    SubSeq(s, from + 1, IF to < Len(s) THEN to ELSE Len(s))

\* crypto.randomBytes(3).toString('base64url').slice(0, 6)
generateShortCode(bytes) == slice(base64url(bytes), 0, CodeSlice)

\* ------------------------------------------------------------------ text
\* A string is a sequence of one-character strings.
UpperCase == <<"A","B","C","D","E","F","G","H","I","J","K","L","M","N","O","P","Q","R","S","T","U","V","W","X","Y","Z">>
LowerCase == <<"a","b","c","d","e","f","g","h","i","j","k","l","m","n","o","p","q","r","s","t","u","v","w","x","y","z">>
Digits == {"0","1","2","3","4","5","6","7","8","9"}

toLowerCase(s) ==
    [i \in DOMAIN s |->
        IF \E k \in DOMAIN UpperCase : UpperCase[k] = s[i]
        THEN LowerCase[CHOOSE k \in DOMAIN UpperCase : UpperCase[k] = s[i]]
        ELSE s[i]]

\* the substring of s of length n that starts after the first i characters
Sub(s, i, n) == SubSeq(s, i + 1, i + n)

includes(s, sub) ==
    \E i \in 0..(Len(s) - Len(sub)) : Sub(s, i, Len(sub)) = sub

CharAt(s, i) == IF i \in DOMAIN s THEN s[i] ELSE ""

\* the length of the run of digits of s that starts at position i
RECURSIVE DigitRun(_, _)
DigitRun(s, i) ==
    IF CharAt(s, i) \in Digits THEN 1 + DigitRun(s, i + 1) ELSE 0

\* ------------------------------------------------------- SecurityService
BLOCKED_DOMAINS ==
    <<<<"b","i","t",".","l","y","/","m","a","l","w","a","r","e">>,
      <<"t","i","n","y","u","r","l",".","c","o","m","/","v","i","r","u","s">>,
      <<"a","d","f",".","l","y">>,
      <<"o","w",".","l","y">>,
      <<"b","i","t",".","d","o">>,
      <<"s","h","o","r","t",".","l","i","n","k">>,
      <<"f","r","e","e","-","m","o","n","e","y">>,
      <<"c","l","i","c","k","-","h","e","r","e","-","n","o","w">>,
      <<"u","r","g","e","n","t","-","a","c","t","i","o","n">>,
      <<"p","o","r","n","h","u","b",".","c","o","m">>,
      <<"x","v","i","d","e","o","s",".","c","o","m">>,
      <<"x","n","x","x",".","c","o","m">>,
      <<".","t","k">>,
      <<".","m","l">>,
      <<".","g","a">>,
      <<".","c","f">>>>

\* /^https?:\/\/\d+\.\d+\.\d+\.\d+/
IpHostPattern(url) ==
    \E h \in {<<"h","t","t","p",":","/","/">>, <<"h","t","t","p","s",":","/","/">>} :
        /\ Sub(url, 0, Len(h)) = h
        /\ LET a  == Len(h) + 1
               d1 == DigitRun(url, a)
               b  == a + d1 + 1
               d2 == DigitRun(url, b)
               c  == b + d2 + 1
               d3 == DigitRun(url, c)
               d  == c + d3 + 1
               d4 == DigitRun(url, d)
           IN  /\ d1 > 0 /\ CharAt(url, a + d1) = "."
               /\ d2 > 0 /\ CharAt(url, b + d2) = "."
               /\ d3 > 0 /\ CharAt(url, c + d3) = "."
               /\ d4 > 0

\* /phishing|malware|virus|scam|hack|exploit/i
KeywordPattern(url) ==
    \E w \in {<<"p","h","i","s","h","i","n","g">>, <<"m","a","l","w","a","r","e">>,
              <<"v","i","r","u","s">>, <<"s","c","a","m">>, <<"h","a","c","k">>,
              <<"e","x","p","l","o","i","t">>} :
        includes(toLowerCase(url), w)

\* /bit\.ly|tinyurl|t\.co|goo\.gl|short\.link/i
ShortenerPattern(url) ==
    \E w \in {<<"b","i","t",".","l","y">>, <<"t","i","n","y","u","r","l">>,
              <<"t",".","c","o">>, <<"g","o","o",".","g","l">>,
              <<"s","h","o","r","t",".","l","i","n","k">>} :
        includes(toLowerCase(url), w)

\* /\.(exe|bat|scr|com|pif|cmd|vbs|jar)(\?|$)/i
ExtensionPattern(url) ==
    LET low == toLowerCase(url)
    IN  \E i \in DOMAIN low :
            /\ low[i] = "."
            /\ Sub(low, i, 3) \in {<<"e","x","e">>, <<"b","a","t">>, <<"s","c","r">>,
                                   <<"c","o","m">>, <<"p","i","f">>, <<"c","m","d">>,
                                   <<"v","b","s">>, <<"j","a","r">>}
            /\ (i + 3 = Len(low) \/ CharAt(low, i + 4) = "?")

\* /data:|javascript:|vbscript:/i
SchemePattern(url) ==
    \E w \in {<<"d","a","t","a",":">>, <<"j","a","v","a","s","c","r","i","p","t",":">>,
              <<"v","b","s","c","r","i","p","t",":">>} :
        includes(toLowerCase(url), w)

\* TRUE when the URL is safe (no blocklist entry is a substring of it)
checkBlockedDomains(url) ==
    LET lowerUrl == toLowerCase(url)
    IN  ~\E k \in DOMAIN BLOCKED_DOMAINS :
            includes(lowerUrl, toLowerCase(BLOCKED_DOMAINS[k]))

\* TRUE when the URL is safe (no pattern of SUSPICIOUS_PATTERNS matches)
checkSuspiciousPatterns(url) ==
    ~(\/ IpHostPattern(url)
      \/ KeywordPattern(url)
      \/ ShortenerPattern(url)
      \/ ExtensionPattern(url)
      \/ SchemePattern(url))

\* /^[a-zA-Z0-9]{6}$/ over base64url indices (0..61 are the alphanumerics)
validateShortCode(shortCode) ==
    /\ Len(shortCode) = 6
    /\ \A i \in DOMAIN shortCode : shortCode[i] < 62

\* mutant: the filter keeps a request aged exactly one hour
RecentInclusive(time, hourAgo) == time >= hourAgo

\* userRequests.filter(time => time > hourAgo)
Recent(time, hourAgo) == time > hourAgo

recentRequests(store, phoneNumber, t) ==
    SelectSeq(IF phoneNumber \in DOMAIN store THEN store[phoneNumber] ELSE <<>>,
              LAMBDA time : Recent(time, t - HourMs))

\* mutant: the limit check is off by one
WithinLimitOffByOne(recent) == ~(Len(recent) > RateLimit)

\* if (recentRequests.length >= 10) return false
WithinLimit(recent) == ~(Len(recent) >= RateLimit)

\* checkRateLimit: its return value, and the store it leaves
checkRateLimit(store, phoneNumber, t) ==
    WithinLimit(recentRequests(store, phoneNumber, t))

\* a variant that pushes the timestamp before the limit is looked at
pushNowAlways(recent, t) == Append(recent, t)

\* return false leaves the pruned window; otherwise recentRequests.push(now)
pushNow(recent, t) == IF WithinLimit(recent) THEN Append(recent, t) ELSE recent

\* a variant that keeps one window for all identities
storeAfterRateLimitShared(store, phoneNumber, t) ==
    LET recent == recentRequests(store, phoneNumber, t)
    IN  [i \in DOMAIN store \cup {phoneNumber} |-> pushNow(recent, t)]

\* rateLimitStore after checkRateLimit(phoneNumber): the Map entry of
\* phoneNumber is set, no other entry is touched
storeAfterRateLimit(store, phoneNumber, t) ==
    LET recent == recentRequests(store, phoneNumber, t)
    IN  [i \in DOMAIN store \cup {phoneNumber} |->
            IF i = phoneNumber THEN pushNow(recent, t) ELSE store[i]]

\* sample URLs
UrlOk == <<"h","t","t","p",":","/","/","e","x","a","m","p","l","e",".","c","o","m","/","p","a","t","h">>
UrlShortener == <<"h","t","t","p","s",":","/","/","b","i","t",".","l","y","/","x">>
UrlBlocked == <<"h","t","t","p",":","/","/","a","d","f",".","l","y","/","v","i","r","u","s",".","e","x","e">>
UrlNoScheme == <<"e","x","a","m","p","l","e",".","c","o","m","/","p","a","t","h">>
UrlBadHost == <<"e","x","a"," ","m","p","l","e",".","c","o","m">>
UrlPadded == <<" ">> \o UrlOk \o <<" ">>
\* one character outside Latin-1 (the Greek letter pi), written by its code point
NonLatin1Char == "U+03C0"
UrlUnicode == <<"h","t","t","p","s",":","/","/","e","x","a","m","p","l","e",".","c","o","m","/",NonLatin1Char>>
PadTo(s, n) == s \o [i \in 1..(n - Len(s)) |-> "a"]

UrlText(u) ==
    CASE u = "ok" -> UrlOk
      [] u = "shortener" -> UrlShortener
      [] u = "blocked" -> UrlBlocked
      [] u = "max" -> PadTo(UrlOk, MaxUrlLength)
      [] u = "long" -> PadTo(UrlOk, MaxUrlLength + 1)
      [] u = "longShortener" -> PadTo(UrlShortener, MaxUrlLength + 1)
      [] u = "longBlocked" -> PadTo(UrlBlocked, MaxUrlLength + 1)
      [] u = "noScheme" -> UrlNoScheme
      [] u = "badHost" -> UrlBadHost
      [] u = "padded" -> UrlPadded
      [] u = "unicode" -> UrlUnicode

AllUrls ==
    {"ok", "shortener", "blocked", "max", "long", "longShortener", "longBlocked",
     "noScheme", "badHost", "padded", "unicode"}

\* the three checks of isUrlSafe that read only the URL, evaluated once for
\* each sample URL
UrlChecks ==
    [u \in AllUrls |->
        [blocklistSafe |-> checkBlockedDomains(UrlText(u)),
         patternSafe |-> checkSuspiciousPatterns(UrlText(u)),
         length |-> Len(UrlText(u))]]

\* mutant: a URL of exactly 2000 characters is refused
TooLongInclusive(length) == length >= MaxUrlLength

\* url.length > 2000
TooLong(length) == length > MaxUrlLength

\* mutant: the suspicious-pattern check runs before the blocklist check
isUrlSafePatternFirst(url, rateOk) ==
    IF ~rateOk
    THEN [reason |-> "rate_limit", checks |-> <<"rate">>]
    ELSE IF ~UrlChecks[url].patternSafe
    THEN [reason |-> "suspicious_pattern", checks |-> <<"rate", "pattern">>]
    ELSE IF ~UrlChecks[url].blocklistSafe
    THEN [reason |-> "blocked_domain", checks |-> <<"rate", "pattern", "blocklist">>]
    ELSE IF TooLong(UrlChecks[url].length)
    THEN [reason |-> "url_too_long",
          checks |-> <<"rate", "pattern", "blocklist", "length">>]
    ELSE [reason |-> "", checks |-> <<"rate", "pattern", "blocklist", "length">>]

\* isUrlSafe up to its first await: the reason code of the first failing check
\* ("" when none fails) and the checks that ran, in the order they ran.
isUrlSafe(url, rateOk) ==
    IF ~rateOk
    THEN [reason |-> "rate_limit", checks |-> <<"rate">>]
    ELSE IF ~UrlChecks[url].blocklistSafe
    THEN [reason |-> "blocked_domain", checks |-> <<"rate", "blocklist">>]
    ELSE IF ~UrlChecks[url].patternSafe
    THEN [reason |-> "suspicious_pattern", checks |-> <<"rate", "blocklist", "pattern">>]
    ELSE IF TooLong(UrlChecks[url].length)
    THEN [reason |-> "url_too_long",
          checks |-> <<"rate", "blocklist", "pattern", "length">>]
    ELSE [reason |-> "", checks |-> <<"rate", "blocklist", "pattern", "length">>]

\* the HEAD request: a response with a status, or a thrown error (timeout
\* after 5 s, network error)
ProbeOutcomes ==
    {[thrown |-> FALSE, status |-> 200], [thrown |-> FALSE, status |-> 404],
     [thrown |-> FALSE, status |-> 500], [thrown |-> TRUE, status |-> 0]}

\* mutant: every response that is not ok denies
checkUrlExistsNotOk(outcome) ==
    IF outcome.thrown THEN TRUE ELSE outcome.status \in 200..299

\* TRUE when checkUrlExists answers safe
checkUrlExists(outcome) ==
    IF outcome.thrown THEN TRUE
    ELSE ~(~(outcome.status \in 200..299) /\ outcome.status = 404)

IdleEval ==
    [pc |-> "idle", url |-> "", phoneNumber |-> "", reason |-> "", checks |-> <<>>,
     rateOk |-> FALSE, room |-> FALSE, full |-> FALSE, status |-> 0]

\* isUrlSafe(url, phoneNumber) from the call to the first await (the probe's
\* fetch) or to its return
EvalStart(p, u, phoneNumber) ==
    /\ ev[p].pc \in {"idle", "done"}
    /\ FreeSlot(ev, p)
    /\ LET rateOk == checkRateLimit(rateLimitStore, phoneNumber, now)
           res == isUrlSafe(u, rateOk)
       IN  /\ rateLimitStore' = storeAfterRateLimit(rateLimitStore, phoneNumber, now)
           /\ passed' = IF rateOk
                        THEN [passed EXCEPT ![phoneNumber] = Append(@, now)]
                        ELSE passed
           /\ ev' = [ev EXCEPT ![p] = [IdleEval EXCEPT
                        !.pc = IF res.reason = "" THEN "probe" ELSE "done",
                        !.url = u, !.phoneNumber = phoneNumber,
                        !.reason = res.reason, !.checks = res.checks,
                        !.rateOk = rateOk,
                        !.room = Len(passed[phoneNumber]) <= 9,
                        !.full = /\ phoneNumber \in DOMAIN rateLimitStore
                                 /\ Len(rateLimitStore[phoneNumber]) = 10]]
    /\ UNCHANGED <<schemaVars, bot, webVars, storeVars, clickVars, shortenVars, now, ticks>>

\* the probe's fetch settles; isUrlSafe returns
EvalProbe(p, outcome) ==
    /\ ev[p].pc = "probe"
    /\ ev' = [ev EXCEPT ![p].pc = "done",
                        ![p].checks = Append(@, "probe"),
                        ![p].status = outcome.status,
                        ![p].reason = IF checkUrlExists(outcome) THEN ""
                                      ELSE "url_not_found"]
    /\ UNCHANGED <<schemaVars, bot, webVars, storeVars, clickVars, shortenVars, gateVars>>

\* time passes; passed keeps the rate checks of the last 60 minutes
Tick(d) ==
    /\ ticks < MaxTicks
    /\ now' = now + d
    /\ ticks' = ticks + 1
    /\ passed' = [i \in DOMAIN passed |->
                     SelectSeq(passed[i], LAMBDA t : now' - t < HourMs)]
    /\ UNCHANGED <<schemaVars, bot, webVars, storeVars, clickVars, shortenVars, rateLimitStore, ev>>

\* -------------------------------------------------------------- shortenUrl
RandomBytes == {<<0, 0, 0>>, <<255, 255, 255>>}

NewLink(userId, url, code) ==
    [user_id |-> userId, original_url |-> url, short_code |-> code,
     is_active |-> TRUE, total_clicks |-> 0, unique_clicks |-> 0]

\* the text handleMessage sends back: which message, and the code it shows
NoReply == [text |-> "", code |-> <<>>]

\* the security event a call has written, if any
NoEvent == [phoneNumber |-> "", url |-> "", reason |-> "", action |-> ""]

\* logSecurityEvent writes one line with identity, reason, action and URL
logSecurityEvent(phoneNumber, url, reason, action) ==
    [phoneNumber |-> phoneNumber, url |-> url, reason |-> reason, action |-> action]

IdleShorten ==
    [pc |-> "idle", url |-> "", phoneNumber |-> "", userId |-> 0, userLinks |-> 0,
     shortCode |-> <<>>, isUnique |-> FALSE, attempts |-> 0, linkId |-> 0,
     counted |-> FALSE, gate |-> FALSE, err |-> "", reply |-> NoReply,
     event |-> NoEvent]

UsersOf(phoneNumber) ==
    {i \in DOMAIN users : users[i].phone_number = phoneNumber}

LinksWithCode(code) ==
    {i \in DOMAIN links : links[i].short_code = code}

\* throw new Error(message): the call ends rejected
Throw(p, message) ==
    sh' = [sh EXCEPT ![p].pc = "thrown", ![p].err = message]

\* a variant that creates the users row of a new identity before the gate
usersAfterGateCreated(phoneNumber) ==
    IF UsersOf(phoneNumber) = {}
    THEN Append(users, [phone_number |-> phoneNumber, total_links_created |-> 0])
    ELSE users

\* table users when shortenUrl reaches its first await: createOrGetUser is
\* called after the gate and isValidUrl, nothing is written before
usersAfterGate(phoneNumber) == users

\* shortenUrl from the call to its first await. part_002: the Security Gate up
\* to the probe's fetch (a denial is logged to the console and thrown).
\* linkService.js: isValidUrl, then createOrGetUser up to its select.
ShortenStart(p, u, phoneNumber, valid) ==
    /\ sh[p].pc \in {"idle", "done", "thrown"}
    /\ sh[p].pc = "idle" \/ sh[p].reply # NoReply
    /\ FreeSlot(sh, p)
    /\ shortenCalls < MaxShortenCalls
    /\ shortenCalls' = shortenCalls + 1
    /\ LET call == [IdleShorten EXCEPT !.url = u, !.phoneNumber = phoneNumber]
           rateOk == checkRateLimit(rateLimitStore, phoneNumber, now)
           res == isUrlSafe(u, rateOk)
       IN  IF impl = "part002"
           THEN /\ rateLimitStore' =
                       storeAfterRateLimit(rateLimitStore, phoneNumber, now)
                /\ passed' = IF rateOk
                             THEN [passed EXCEPT ![phoneNumber] = Append(@, now)]
                             ELSE passed
                /\ sh' = [sh EXCEPT ![p] =
                             IF res.reason = ""
                             THEN [call EXCEPT !.pc = "probe"]
                             ELSE [call EXCEPT !.pc = "thrown", !.err = res.reason,
                                       !.event = logSecurityEvent(phoneNumber, u,
                                                     res.reason, "blocked")]]
           ELSE /\ sh' = [sh EXCEPT ![p] =
                             IF valid
                             THEN [call EXCEPT !.pc = "userSelect"]
                             ELSE [call EXCEPT !.pc = "thrown",
                                               !.err = "Invalid URL format"]]
                /\ UNCHANGED <<rateLimitStore, passed>>
    /\ users' = usersAfterGate(phoneNumber)
    /\ UNCHANGED <<schemaVars, bot, webVars, links, clicks, clickVars, lookedUp, now, ticks, ev>>

\* part_002: the probe settles, isUrlSafe returns, isValidUrl runs
ShortenProbe(p, outcome, valid) ==
    /\ sh[p].pc = "probe"
    /\ IF ~checkUrlExists(outcome)
       THEN sh' = [sh EXCEPT ![p].pc = "thrown", ![p].err = "url_not_found",
                             ![p].event = logSecurityEvent(sh[p].phoneNumber,
                                              sh[p].url, "url_not_found", "blocked")]
       ELSE IF ~valid
       THEN sh' = [sh EXCEPT ![p].pc = "thrown", ![p].err = "Invalid URL format",
                             ![p].gate = TRUE]
       ELSE sh' = [sh EXCEPT ![p].pc = "userSelect", ![p].gate = TRUE]
    /\ UNCHANGED <<schemaVars, bot, webVars, storeVars, clickVars, shortenCalls, lookedUp,
                   gateVars, ev>>

\* createOrGetUser: select * from users where phone_number .single(); the
\* error of the call is ignored
UserSelect(p, ok) ==
    /\ sh[p].pc = "userSelect"
    /\ LET existingUser == IF ok THEN Single(UsersOf(sh[p].phoneNumber)) ELSE 0
       IN  sh' = [sh EXCEPT ![p] =
                     IF existingUser # 0
                     THEN [@ EXCEPT !.pc = "generate", !.userId = existingUser,
                              !.userLinks = users[existingUser].total_links_created]
                     ELSE [@ EXCEPT !.pc = "userInsert"]]
    /\ UNCHANGED <<schemaVars, bot, webVars, storeVars, clickVars, shortenCalls, lookedUp,
                   gateVars, ev>>

\* createOrGetUser: insert the user; an error makes it return null and
\* shortenUrl throw
UserInsert(p, ok) ==
    /\ sh[p].pc = "userInsert"
    /\ IF ok /\ ~(uniqueIndex /\ UsersOf(sh[p].phoneNumber) # {})
       THEN /\ users' = Append(users, [phone_number |-> sh[p].phoneNumber,
                                       total_links_created |-> 0])
            /\ sh' = [sh EXCEPT ![p].pc = "generate", ![p].userId = Len(users) + 1,
                                ![p].userLinks = 0]
       ELSE /\ Throw(p, "Failed to create user")
            /\ UNCHANGED users
    /\ UNCHANGED <<schemaVars, bot, webVars, links, clicks, clickVars, shortenCalls, lookedUp,
                   gateVars, ev>>

\* mutant: the loop allows an eleventh attempt
ContinueLoopOffByOne(isUnique, attempts) == ~isUnique /\ attempts <= MaxAttempts

\* while (!isUnique && attempts < 10)
ContinueLoop(isUnique, attempts) == ~isUnique /\ attempts < MaxAttempts

\* the draws of randomBytes(3) one call can consume
Draws == {[k \in 1..(MaxAttempts + 1) |-> bytes] : bytes \in RandomBytes}

\* part_002: the iterations from draw k on that end in `continue` because the
\* generated code fails validateShortCode; they run without an await
RECURSIVE Skipped(_, _, _)
Skipped(draws, k, attempts) ==
    IF /\ impl = "part002"
       /\ k <= Len(draws)
       /\ ContinueLoop(FALSE, attempts)
       /\ ~validateShortCode(generateShortCode(draws[k]))
    THEN 1 + Skipped(draws, k + 1, attempts + 1)
    ELSE 0

\* the allocation loop from one await to the next: iterations skipped for
\* their format (part_002), then one generated code looked up in the
\* registry (the error of the lookup is ignored), or the loop's exit
CodeAttempt(p, draws, ok) ==
    /\ sh[p].pc = "generate"
    /\ LET n == Skipped(draws, 1, sh[p].attempts)
           skippedTo == sh[p].attempts + n
           shortCode == generateShortCode(draws[n + 1])
           existing == IF ok THEN Single(LinksWithCode(shortCode)) ELSE 0
           isUnique == existing = 0
           attempts == skippedTo + 1
       IN  IF ~ContinueLoop(FALSE, skippedTo)
           THEN /\ sh' = [sh EXCEPT ![p] =
                            [@ EXCEPT !.shortCode = generateShortCode(draws[n]),
                                      !.attempts = skippedTo,
                                      !.pc = "thrown",
                                      !.err = "Failed to generate unique short code"]]
                /\ UNCHANGED lookedUp
           ELSE /\ sh' = [sh EXCEPT ![p] =
                            [@ EXCEPT !.shortCode = shortCode, !.isUnique = isUnique,
                                      !.attempts = attempts,
                                      !.pc = IF ContinueLoop(isUnique, attempts)
                                             THEN "generate"
                                             ELSE IF ~isUnique THEN "thrown"
                                             ELSE "linkInsert",
                                      !.err = IF ~ContinueLoop(isUnique, attempts)
                                                 /\ ~isUnique
                                              THEN "Failed to generate unique short code"
                                              ELSE ""]]
                /\ lookedUp' = lookedUp \cup {shortCode}
    /\ UNCHANGED <<schemaVars, bot, webVars, storeVars, clickVars, shortenCalls, gateVars, ev>>

\* insert into shortened_links; if (error) throw error
LinkInsert(p, ok) ==
    /\ sh[p].pc = "linkInsert"
    /\ IF uniqueIndex /\ LinksWithCode(sh[p].shortCode) # {}
       THEN /\ Throw(p, "DuplicateCode")
            /\ UNCHANGED links
       ELSE IF ok
       THEN /\ links' = Append(links, NewLink(sh[p].userId, sh[p].url, sh[p].shortCode))
            /\ sh' = [sh EXCEPT ![p].linkId = Len(links) + 1,
                                ![p].pc = IF impl = "linkService" THEN "rpc"
                                          ELSE "manual"]
       ELSE /\ Throw(p, "StoreError")
            /\ UNCHANGED links
    /\ UNCHANGED <<schemaVars, bot, webVars, users, clicks, clickVars, shortenCalls, lookedUp,
                   gateVars, ev>>

\* linkService.js: rpc('increment_user_links'), a relative add in the store;
\* on its error the manual increment follows
CountRpc(p, ok) ==
    /\ sh[p].pc = "rpc"
    /\ IF ok
       THEN /\ users' = [users EXCEPT ![sh[p].userId].total_links_created = @ + 1]
            /\ sh' = [sh EXCEPT ![p].pc = "done", ![p].counted = TRUE]
       ELSE /\ sh' = [sh EXCEPT ![p].pc = "manual"]
            /\ UNCHANGED users
    /\ UNCHANGED <<schemaVars, bot, webVars, links, clicks, clickVars, shortenCalls, lookedUp,
                   gateVars, ev>>

\* mutant: a failed counter update rejects the call
AfterCountFailureThrows == "thrown"

\* a failed counter update is logged (linkService.js) or not read
\* (part_002); the call goes on to return the link
AfterCountFailure == "done"

\* update users set total_links_created = user.total_links_created + 1, from
\* the row read by createOrGetUser; its error is at most logged. part_002
\* then logs the creation as an allowed security event
CountManual(p, ok) ==
    /\ sh[p].pc = "manual"
    /\ LET event == IF impl = "part002"
                    THEN logSecurityEvent(sh[p].phoneNumber, sh[p].url,
                                          "link_created", "allowed")
                    ELSE sh[p].event
       IN  IF ok
           THEN /\ users' = [users EXCEPT
                       ![sh[p].userId].total_links_created = sh[p].userLinks + 1]
                /\ sh' = [sh EXCEPT ![p].pc = "done", ![p].counted = TRUE,
                                    ![p].event = event]
           ELSE /\ sh' = [sh EXCEPT ![p].pc = AfterCountFailure, ![p].event = event]
                /\ UNCHANGED users
    /\ UNCHANGED <<schemaVars, bot, webVars, links, clicks, clickVars, shortenCalls, lookedUp,
                   gateVars, ev>>

\* handleMessage after shortenUrl settled: the success text with the short
\* URL and the code of the returned link, or, when shortenUrl threw, the
\* text of the handler's catch
\* (the loop counter is a local of the settled call and is gone with it)
HandleReply(p) ==
    /\ sh[p].pc \in {"done", "thrown"}
    /\ sh[p].reply = NoReply
    /\ sh' = [sh EXCEPT ![p].reply =
                 IF sh[p].pc = "thrown"
                 THEN [text |-> "something_went_wrong", code |-> <<>>]
                 ELSE [text |-> "link_shortened",
                       code |-> links[sh[p].linkId].short_code],
                        ![p].attempts = 0]
    /\ UNCHANGED <<schemaVars, bot, webVars, storeVars, clickVars, shortenCalls, lookedUp,
                   gateVars, ev>>

\* ------------------------------------------------------------- trackClick
\* user agents: a header is written as the sequence of its product tokens
TokenText ==
    [Mozilla |-> <<"M","o","z","i","l","l","a">>,
     Mobile  |-> <<"M","o","b","i","l","e">>,
     Android |-> <<"A","n","d","r","o","i","d">>,
     iPhone  |-> <<"i","P","h","o","n","e">>,
     Tablet  |-> <<"T","a","b","l","e","t">>,
     iPad    |-> <<"i","P","a","d">>,
     Chrome  |-> <<"C","h","r","o","m","e">>,
     Firefox |-> <<"F","i","r","e","f","o","x">>,
     Safari  |-> <<"S","a","f","a","r","i">>,
     Edge    |-> <<"E","d","g","e">>]

Tokens == DOMAIN TokenText

\* the header text: the tokens in order, each followed by "/"
RECURSIVE UserAgentText(_)
UserAgentText(userAgent) ==
    IF userAgent = <<>> THEN <<>>
    ELSE TokenText[Head(userAgent)] \o <<"/">> \o UserAgentText(Tail(userAgent))

\* parseDeviceType
parseDeviceType(userAgent) ==
    LET ua == toLowerCase(userAgent)
    IN  IF \/ includes(ua, <<"m","o","b","i","l","e">>)
           \/ includes(ua, <<"a","n","d","r","o","i","d">>)
           \/ includes(ua, <<"i","p","h","o","n","e">>)
        THEN "mobile"
        ELSE IF \/ includes(ua, <<"t","a","b","l","e","t">>)
                \/ includes(ua, <<"i","p","a","d">>)
        THEN "tablet"
        ELSE "desktop"

\* a variant that looks for safari before chrome
parseBrowserSafariFirst(userAgent) ==
    LET ua == toLowerCase(userAgent)
    IN  IF includes(ua, <<"s","a","f","a","r","i">>) THEN "Safari"
        ELSE IF includes(ua, <<"c","h","r","o","m","e">>) THEN "Chrome"
        ELSE IF includes(ua, <<"f","i","r","e","f","o","x">>) THEN "Firefox"
        ELSE IF includes(ua, <<"e","d","g","e">>) THEN "Edge"
        ELSE "Unknown"

\* parseBrowser
parseBrowser(userAgent) ==
    LET ua == toLowerCase(userAgent)
    IN  IF includes(ua, <<"c","h","r","o","m","e">>) THEN "Chrome"
        ELSE IF includes(ua, <<"f","i","r","e","f","o","x">>) THEN "Firefox"
        ELSE IF includes(ua, <<"s","a","f","a","r","i">>) THEN "Safari"
        ELSE IF includes(ua, <<"e","d","g","e">>) THEN "Edge"
        ELSE "Unknown"

\* the user agents of the sample requests: at most two tokens
UserAgents == {<<>>} \cup {<<t>> : t \in Tokens} \cup {<<t, u>> : t, u \in Tokens}

\* both parsers, tabulated over the sample user agents
UserAgentParsed ==
    [userAgent \in UserAgents |->
        [deviceType |-> parseDeviceType(UserAgentText(userAgent)),
         browser    |-> parseBrowser(UserAgentText(userAgent))]]

\* the user agent of the requests whose user agent does not matter
PlainUserAgent == <<"Mozilla">>

IdleTrack ==
    [pc |-> "idle", linkId |-> 0, ip |-> "", isUnique |-> FALSE,
     userAgent |-> <<>>, deviceType |-> "", browser |-> "",
     cur |-> [total_clicks |-> 0, unique_clicks |-> 0],
     ret |-> [success |-> FALSE, isUnique |-> FALSE],
     prior |-> 0, row |-> 0, storeFailed |-> FALSE]

ClicksOf(linkId, ip) ==
    {i \in DOMAIN clicks : clicks[i].link_id = linkId /\ clicks[i].ip_address = ip}

\* catch (error) { return { success: false, isUnique: false } }
TrackFail(p) ==
    /\ tr' = [tr EXCEPT ![p].pc = "done", ![p].storeFailed = TRUE,
                        ![p].ret = [success |-> FALSE, isUnique |-> FALSE]]
    /\ failedClicks' = TRUE
    /\ UNCHANGED okClicks

\* return { success: true, isUnique }
TrackSucceed(p) ==
    /\ tr' = [tr EXCEPT ![p].pc = "done",
                        ![p].ret = [success |-> TRUE, isUnique |-> tr[p].isUnique]]
    /\ okClicks' = [okClicks EXCEPT ![tr[p].linkId] = @ + 1]
    /\ UNCHANGED failedClicks

\* a variant that flags every click as unique
isUniqueAlways(existingClick) == TRUE

\* const isUnique = !existingClick (0 stands for null)
isUnique(existingClick) == existingClick = 0

\* select id from link_clicks where link_id, ip_address .single(); the error
\* of the call is ignored, so a failed lookup reads as "no prior click".
TrackStart(p, linkId, ip, userAgent, ok) ==
    /\ tr[p].pc \in {"idle", "done"}
    /\ clickCalls < MaxClickCalls
    /\ linkId \in DOMAIN links
    /\ LET existingClick == IF ok THEN Single(ClicksOf(linkId, ip)) ELSE 0
       IN  tr' = [tr EXCEPT ![p] = [IdleTrack EXCEPT
                     !.pc = "insert", !.linkId = linkId, !.ip = ip,
                     !.isUnique = isUnique(existingClick),
                     !.userAgent = userAgent,
                     !.deviceType = UserAgentParsed[userAgent].deviceType,
                     !.browser = UserAgentParsed[userAgent].browser,
                     !.prior = Cardinality(ClicksOf(linkId, ip)),
                     !.storeFailed = ~ok]]
    /\ clickCalls' = clickCalls + 1
    /\ UNCHANGED <<schemaVars, bot, storeVars, okClicks, failedClicks, shortenVars,
                   gateVars, ev>>

\* a trackClick call made on its own
TrackLookup(p, linkId, ip, userAgent, ok) ==
    /\ FreeSlot(tr, p)
    /\ TrackStart(p, linkId, ip, userAgent, ok)
    /\ UNCHANGED webVars

\* a variant that overwrites the row of the same link and address, if any
insertClickUpsert(row) ==
    LET same == {i \in DOMAIN clicks : /\ clicks[i].link_id = row.link_id
                                        /\ clicks[i].ip_address = row.ip_address}
    IN  IF same = {} THEN Append(clicks, row)
        ELSE [clicks EXCEPT ![CHOOSE i \in same : TRUE] = row]

\* from('link_clicks').insert([row])
insertClick(row) == Append(clicks, row)

TrackInsert(p, ok) ==
    /\ tr[p].pc = "insert"
    /\ IF ok
       THEN /\ clicks' = insertClick([link_id |-> tr[p].linkId,
                                      ip_address |-> tr[p].ip,
                                      user_agent |-> tr[p].userAgent,
                                      device_type |-> tr[p].deviceType,
                                      browser |-> tr[p].browser,
                                      is_unique |-> tr[p].isUnique])
            /\ tr' = [tr EXCEPT ![p].row = Len(clicks) + 1, ![p].pc =
                         IF impl = "linkService" THEN "fetch" ELSE "update"]
            /\ UNCHANGED <<okClicks, failedClicks>>
       ELSE /\ TrackFail(p)
            /\ UNCHANGED clicks
    /\ UNCHANGED <<schemaVars, bot, webVars, users, links, clickCalls, shortenVars, gateVars, ev>>

\* linkService.js: read the current counters
TrackFetch(p, ok) ==
    /\ tr[p].pc = "fetch"
    /\ impl = "linkService"
    /\ IF ok
       THEN /\ tr' = [tr EXCEPT ![p].pc = "update",
                      ![p].cur = [total_clicks |-> links[tr[p].linkId].total_clicks,
                                  unique_clicks |-> links[tr[p].linkId].unique_clicks]]
            /\ UNCHANGED <<okClicks, failedClicks>>
       ELSE TrackFail(p)
    /\ UNCHANGED <<schemaVars, bot, webVars, storeVars, clickCalls, shortenVars, gateVars, ev>>

\* a variant that takes unique_clicks from the row as it is at the update
newUniqueClicksReread(p) ==
    IF tr[p].isUnique THEN links[tr[p].linkId].unique_clicks + 1
                      ELSE links[tr[p].linkId].unique_clicks

\* newUniqueClicks, computed from the same read (currentLink) as newTotalClicks
newUniqueClicks(p) ==
    IF tr[p].isUnique THEN tr[p].cur.unique_clicks + 1
                      ELSE tr[p].cur.unique_clicks

\* linkService.js: overwrite the counters with the values computed from the read
TrackUpdate(p, ok) ==
    /\ tr[p].pc = "update"
    /\ impl = "linkService"
    /\ IF ok
       THEN /\ links' = [links EXCEPT
                   ![tr[p].linkId].total_clicks = tr[p].cur.total_clicks + 1,
                   ![tr[p].linkId].unique_clicks = newUniqueClicks(p)]
            /\ TrackSucceed(p)
       ELSE /\ TrackFail(p)
            /\ UNCHANGED links
    /\ UNCHANGED <<schemaVars, bot, webVars, users, clicks, clickCalls, shortenVars, gateVars, ev>>

\* part_002: update with supabase.raw('total_clicks + 1'), a relative add
TrackUpdateRaw(p, ok) ==
    /\ tr[p].pc = "update"
    /\ impl = "part002"
    /\ IF ok
       THEN /\ links' = [links EXCEPT
                   ![tr[p].linkId].total_clicks = @ + 1,
                   ![tr[p].linkId].unique_clicks =
                       IF tr[p].isUnique THEN @ + 1 ELSE @]
            /\ TrackSucceed(p)
       ELSE /\ TrackFail(p)
            /\ UNCHANGED links
    /\ UNCHANGED <<schemaVars, bot, webVars, users, clicks, clickCalls, shortenVars, gateVars, ev>>

\* ------------------------------------------------------- GET /:shortCode
RequestProcs == 1..2

\* String.prototype.trim on the sample texts (the whitespace is the space)
RECURSIVE trim(_)
trim(s) ==
    IF s = <<>> THEN s
    ELSE IF s[1] = " " THEN trim(SubSeq(s, 2, Len(s)))
    ELSE IF s[Len(s)] = " " THEN trim(SubSeq(s, 1, Len(s) - 1))
    ELSE s

StartsWith(s, prefix) ==
    Len(s) >= Len(prefix) /\ SubSeq(s, 1, Len(prefix)) = prefix

\* redirectUrl.match(/^https?:\/\//i)
HasScheme(s) ==
    \/ StartsWith(toLowerCase(s), <<"h","t","t","p",":","/","/">>)
    \/ StartsWith(toLowerCase(s), <<"h","t","t","p","s",":","/","/">>)

\* the host of an http(s) URL text: what follows the scheme up to the first
\* of / ? #
HostOf(s) ==
    LET rest == IF StartsWith(toLowerCase(s), <<"h","t","t","p","s",":","/","/">>)
                THEN SubSeq(s, 9, Len(s)) ELSE SubSeq(s, 8, Len(s))
        ends == {i \in 1..Len(rest) : rest[i] \in {"/", "?", "#"}}
        stop == IF ends = {} THEN Len(rest) + 1
                ELSE CHOOSE i \in ends : \A j \in ends : i <= j
    IN  SubSeq(rest, 1, stop - 1)

\* new URL(s) does not throw: an http(s) URL whose host is not empty and
\* holds no character forbidden in a host
NewUrlAccepts(s) ==
    LET t == trim(s)
    IN  /\ HasScheme(t)
        /\ HostOf(t) # <<>>
        /\ \A i \in 1..Len(HostOf(t)) :
               HostOf(t)[i] \notin {" ", "<", ">", "[", "]", "^", "|"}

\* the first definition of the route: trim, prepend https:// when the text
\* has no scheme
NormalizedUrl(stored) ==
    IF HasScheme(trim(stored)) THEN trim(stored)
    ELSE <<"h","t","t","p","s",":","/","/">> \o trim(stored)

\* res.writeHead throws ERR_INVALID_CHAR for a header value with a character
\* outside Latin-1
HeaderValueOk(s) == \A i \in DOMAIN s : s[i] # NonLatin1Char

\* what the route does with each sample URL, evaluated once
UrlRedirects ==
    [u \in AllUrls |->
        [stored |-> UrlText(u),
         redirectUrl |-> NormalizedUrl(UrlText(u)),
         valid |-> NewUrlAccepts(NormalizedUrl(UrlText(u))),
         wellFormed |-> NewUrlAccepts(UrlText(u)) /\ trim(UrlText(u)) = UrlText(u),
         hasScheme |-> HasScheme(UrlText(u)),
         headerOk |-> HeaderValueOk(NormalizedUrl(UrlText(u)))]]

IdleRequest ==
    [pc |-> "idle", shortCode |-> <<>>, ip |-> "", link |-> 0, matching |-> 0,
     redirectUrl |-> <<>>, tracked |-> FALSE, status |-> 0, location |-> <<>>,
     body |-> {}]

\* mutant: the lookup does not filter on is_active
AnyWithCode(shortCode) ==
    {i \in DOMAIN links : links[i].short_code = shortCode}

\* .eq('short_code', shortCode).eq('is_active', true)
ActiveWithCode(shortCode) ==
    {i \in DOMAIN links : links[i].short_code = shortCode /\ links[i].is_active}

\* getLinkByShortCode: the active row with the code, .single(); null (0) when
\* no row or several rows match, and when the store call fails
getLinkByShortCode(shortCode, ok) ==
    IF ok THEN Single(ActiveWithCode(shortCode)) ELSE 0

\* GET /:shortCode from the request to the first await of trackClick, or to
\* the response when the route answers without tracking
RedirectLookup(p, shortCode, ip, ok) ==
    /\ rq[p].pc \in {"idle", "done"}
    /\ FreeSlot(rq, p)
    /\ requests < MaxRequests
    /\ requests' = requests + 1
    /\ LET link == getLinkByShortCode(shortCode, ok)
           req == [IdleRequest EXCEPT !.shortCode = shortCode, !.ip = ip,
                                      !.link = link,
                                      !.matching = Cardinality(ActiveWithCode(shortCode))]
           u == UrlRedirects[links[link].original_url]
       IN  rq' = [rq EXCEPT ![p] =
                 IF link = 0
                 THEN [req EXCEPT !.pc = "done", !.status = 404,
                                  !.body = IF server = "first" THEN {"shortCode"}
                                           ELSE {}]
                 ELSE IF server = "second"
                 THEN [req EXCEPT !.pc = "track", !.redirectUrl = u.stored]
                 ELSE IF u.stored = <<>>
                 THEN [req EXCEPT !.pc = "done", !.status = 500]
                 ELSE IF ~u.valid
                 THEN [req EXCEPT !.pc = "done", !.status = 400,
                                  !.redirectUrl = u.redirectUrl]
                 ELSE [req EXCEPT !.pc = "track", !.redirectUrl = u.redirectUrl]]
    /\ UNCHANGED <<schemaVars, bot, server, pg, storeVars, clickVars, shortenVars, gateVars, ev>>

\* the route calls trackClick(link.id, clientIP, ...) and awaits it
RedirectTrack(p, ok) ==
    /\ rq[p].pc = "track"
    /\ TrackStart(p, rq[p].link, rq[p].ip, PlainUserAgent, ok)
    /\ rq' = [rq EXCEPT ![p].pc = "tracking", ![p].tracked = TRUE]
    /\ UNCHANGED <<server, requests, pg>>

\* mutant: a failed tracking turns the response into an error
StatusAfterTrackStrict(ret) == IF ret.success THEN 302 ELSE 500

\* the result of trackClick is not read: the redirect follows in any case
StatusAfterTrack(ret) == 302

\* trackClick returned: res.writeHead(302, {Location}) / res.redirect(302, url).
\* In the first definition writeHead throws for a Location it cannot write,
\* and the catch answers 500 with error.message in the page; res.redirect
\* encodes the URL before it sets the header.
RedirectRespond(p) ==
    /\ rq[p].pc = "tracking"
    /\ tr[p].pc = "done"
    /\ IF server = "first" /\ ~HeaderValueOk(rq[p].redirectUrl)
       THEN rq' = [rq EXCEPT ![p].pc = "done", ![p].status = 500,
                             ![p].body = {"error.message"}]
       ELSE rq' = [rq EXCEPT ![p].pc = "done",
                             ![p].status = StatusAfterTrack(tr[p].ret),
                             ![p].location = IF StatusAfterTrack(tr[p].ret) = 302
                                             THEN rq[p].redirectUrl ELSE <<>>]
    /\ UNCHANGED <<schemaVars, bot, server, requests, pg, storeVars, clickVars, shortenVars,
                   gateVars, ev>>

\* ------------------------------------------ statistics, preview, link list
NoStats ==
    [found |-> FALSE, id |-> 0, user_id |-> 0, short_code |-> <<>>,
     total_clicks |-> 0, unique_clicks |-> 0, todayClicks |-> 0,
     deviceBreakdown |-> {}, browserBreakdown |-> {}]

NoPage ==
    [route |-> "", shortCode |-> <<>>, status |-> 0, body |-> {}, stats |-> NoStats,
     at |-> <<>>, repeat |-> FALSE, userLinks |-> {}, phoneNumber |-> "",
     listing |-> <<>>, asked |-> <<>>]

\* getDeviceBreakdown: for each device type among the clicks, their number
getDeviceBreakdown(rows) ==
    {[key |-> d, count |-> Cardinality({i \in rows : clicks[i].device_type = d})] :
        d \in {clicks[i].device_type : i \in rows}}

\* getBrowserBreakdown: for each browser among the clicks, their number
getBrowserBreakdown(rows) ==
    {[key |-> b, count |-> Cardinality({i \in rows : clicks[i].browser = b})] :
        b \in {clicks[i].browser : i \in rows}}

\* getLinkStats: the row with the code, .single(), with its link_clicks rows;
\* null (NoStats) when no row or several rows match and when the select
\* fails. todayClicks depends on the clock and on clicked_at, which the store
\* sets: any number of the link's clicks.
getLinkStats(shortCode, ok, todayClicks) ==
    LET link == IF ok THEN Single(LinksWithCode(shortCode)) ELSE 0
        rows == {i \in DOMAIN clicks : clicks[i].link_id = link}
    IN  IF link = 0 THEN NoStats
        ELSE [found |-> TRUE, id |-> link, user_id |-> links[link].user_id,
              short_code |-> links[link].short_code,
              total_clicks |-> links[link].total_clicks,
              unique_clicks |-> links[link].unique_clicks,
              todayClicks |-> IF todayClicks <= Cardinality(rows) THEN todayClicks
                              ELSE Cardinality(rows),
              deviceBreakdown |-> getDeviceBreakdown(rows),
              browserBreakdown |-> getBrowserBreakdown(rows)]

\* a variant that counts the views of the statistics on the link
linksAfterStatsCounted(link) ==
    IF link = 0 THEN links ELSE [links EXCEPT ![link].total_clicks = @ + 1]

\* shortened_links after getLinkStats: the call issues one select and no write
linksAfterStats(link) == links

\* which trackClick steps have been taken
ClickSteps == <<clickCalls, [p \in DOMAIN tr |-> tr[p].pc]>>

\* GET /api/stats/:shortCode
StatsRequest(shortCode, ok, todayClicks) ==
    /\ LET stats == getLinkStats(shortCode, ok, todayClicks)
       IN  /\ pg' = [NoPage EXCEPT
                        !.route = "stats", !.shortCode = shortCode,
                        !.status = IF stats.found THEN 200 ELSE 404,
                        !.body = IF stats.found
                                 THEN {"stats.short_code", "stats.short_url",
                                       "stats.total_clicks", "stats.unique_clicks",
                                       "stats.todayClicks", "stats.created_at",
                                       "stats.deviceBreakdown", "stats.browserBreakdown"}
                                 ELSE {},
                        !.stats = stats,
                        !.at = ClickSteps,
                        !.repeat = /\ pg.route = "stats" /\ pg.shortCode = shortCode
                                   /\ pg.stats.found /\ stats.found
                                   /\ pg.at = ClickSteps]
           /\ links' = linksAfterStats(stats.id)
    /\ UNCHANGED <<schemaVars, bot, server, rq, requests, users, clicks, clickVars,
                   shortenVars, gateVars, ev>>

\* GET /preview/:shortCode
PreviewRequest(shortCode, ok) ==
    /\ LET link == getLinkByShortCode(shortCode, ok)
       IN  pg' = [NoPage EXCEPT
                    !.route = "preview", !.shortCode = shortCode,
                    !.status = IF link = 0 THEN 404 ELSE 200,
                    !.body = IF link = 0 THEN {}
                             ELSE IF server = "first"
                             THEN {"link.short_url", "link.original_url",
                                   "link.total_clicks", "link.unique_clicks",
                                   "shortCode", "link.created_at", "link.id",
                                   "!!link.original_url"}
                             ELSE {"link.short_url", "link.original_url",
                                   "link.total_clicks", "link.unique_clicks",
                                   "shortCode", "link.created_at"}]
    /\ UNCHANGED <<schemaVars, bot, server, rq, requests, storeVars, clickVars,
                   shortenVars, gateVars, ev>>

\* getUserLinks, called for /mylinks: the users row of the identity,
\* .single(), with its shortened_links rows
GetUserLinks(phoneNumber, ok) ==
    /\ LET user == IF ok THEN Single(UsersOf(phoneNumber)) ELSE 0
       IN  pg' = [NoPage EXCEPT
                    !.route = "mylinks",
                    !.userLinks = {i \in DOMAIN links : links[i].user_id = user}]
    /\ UNCHANGED <<schemaVars, bot, server, rq, requests, storeVars, clickVars,
                   shortenVars, gateVars, ev>>

\* ------------------------------------------------- click specifications
Identities == {"2348010001", "2348010002"}

ShortenProcs == 1..2
EvalProcs == 1..2

\* A store holding one user and the two links that user created, no click yet.
InitClick ==
    /\ impl \in Impls
    /\ uniqueIndex = TRUE
    /\ users = <<[phone_number |-> "2348010001", total_links_created |-> 2]>>
    /\ links = <<NewLink(1, "ok", generateShortCode(<<0, 0, 0>>)),
                 NewLink(1, "ok", generateShortCode(<<255, 255, 255>>))>>
    /\ clicks = <<>>
    /\ tr = [p \in TrackProcs |-> IdleTrack]
    /\ clickCalls = 0
    /\ okClicks = [l \in 1..2 |-> 0]
    /\ failedClicks = FALSE
    /\ sh = [p \in ShortenProcs |-> IdleShorten]
    /\ shortenCalls = 0
    /\ lookedUp = {}
    /\ now = 0
    /\ ticks = 0
    /\ rateLimitStore = <<>>
    /\ passed = [i \in Identities |-> <<>>]
    /\ ev = [p \in EvalProcs |-> IdleEval]
    /\ server = "first"
    /\ rq = [p \in RequestProcs |-> IdleRequest]
    /\ requests = 0
    /\ pg = NoPage
    /\ bot = IdleBot

NoClickInProgress == \A q \in TrackProcs : tr[q].pc \in {"idle", "done"}

\* concurrent redirects: the calls interleave at every await
NextClick ==
    \E p \in TrackProcs, ok \in BOOLEAN :
        \/ \E l \in DOMAIN links, ip \in Addresses :
               TrackLookup(p, l, ip, PlainUserAgent, ok)
        \/ TrackInsert(p, ok)
        \/ TrackFetch(p, ok)
        \/ TrackUpdate(p, ok)
        \/ TrackUpdateRaw(p, ok)

SpecClick == InitClick /\ [][NextClick]_vars

\* sequential redirects: a call starts only when no other call is in progress
NextClickSeq ==
    \E p \in TrackProcs, ok \in BOOLEAN :
        \/ \E l \in DOMAIN links, ip \in Addresses :
               NoClickInProgress /\ TrackLookup(p, l, ip, PlainUserAgent, ok)
        \/ TrackInsert(p, ok)
        \/ TrackFetch(p, ok)
        \/ TrackUpdate(p, ok)
        \/ TrackUpdateRaw(p, ok)

SpecClickSeq == InitClick /\ [][NextClickSeq]_vars

\* ------------------------------------------------------------ claims
ClicksOfLink(l) == {i \in DOMAIN clicks : clicks[i].link_id = l}
UniqueClicksOfLink(l) == {i \in ClicksOfLink(l) : clicks[i].is_unique}

\* C1: N concurrent trackClick calls on one link that all complete
\* successfully leave total_clicks at its initial value (0) plus N.
C1_NoLostUpdate ==
    (NoClickInProgress /\ ~failedClicks) =>
        \A l \in DOMAIN links : links[l].total_clicks = okClicks[l]

\* C5: for sequential calls in which every store call succeeded, the returned
\* isUnique and the flag stored on the new ClickEvent are true iff no
\* ClickEvent of that link with the same address existed when the call started.
C5_UniqueIffNoPrior ==
    \A p \in TrackProcs :
        (tr[p].pc = "done" /\ ~tr[p].storeFailed) =>
            /\ tr[p].ret.isUnique = (tr[p].prior = 0)
            /\ clicks[tr[p].row].is_unique = (tr[p].prior = 0)

\* C6: with no trackClick call in progress, each link's counters equal the
\* numbers of its link_clicks rows and of its rows flagged is_unique, also
\* when individual store calls fail.
C6_CountersMatchRows ==
    NoClickInProgress =>
        \A l \in DOMAIN links :
            /\ links[l].total_clicks = Cardinality(ClicksOfLink(l))
            /\ links[l].unique_clicks = Cardinality(UniqueClicksOfLink(l))

\* ------------------------------------------------- gate specification
GateUrls == {"max", "blocked", "longShortener", "long"}
GateIdentities == {"2348010001"}
Advance == {1, HourMs - 1}

InitGate ==
    /\ impl = "part002"
    /\ uniqueIndex = TRUE
    /\ users = <<>>
    /\ links = <<>>
    /\ clicks = <<>>
    /\ tr = [p \in TrackProcs |-> IdleTrack]
    /\ clickCalls = 0
    /\ okClicks = <<>>
    /\ failedClicks = FALSE
    /\ sh = [p \in ShortenProcs |-> IdleShorten]
    /\ shortenCalls = 0
    /\ lookedUp = {}
    /\ now = 0
    /\ ticks = 0
    /\ rateLimitStore = <<>>
    /\ passed = [i \in Identities |-> <<>>]
    /\ ev = [p \in EvalProcs |-> IdleEval]
    /\ server = "first"
    /\ rq = [p \in RequestProcs |-> IdleRequest]
    /\ requests = 0
    /\ pg = NoPage
    /\ bot = IdleBot

NextGate ==
    \/ \E p \in EvalProcs, u \in GateUrls, i \in GateIdentities : EvalStart(p, u, i)
    \/ \E p \in EvalProcs, o \in ProbeOutcomes : EvalProbe(p, o)
    \/ \E d \in Advance : Tick(d)

SpecGate == InitGate /\ [][NextGate]_vars

\* C3: at every instant at most 10 rate checks of an identity returned true
\* within the preceding 60 minutes, whatever became of the request afterwards;
\* a call is denied, with reason rate_limit, exactly when 10 such checks are
\* already within the hour, requests aged 60 minutes or more no longer counting.
C3_RateWindow ==
    /\ \A i \in Identities : Len(passed[i]) <= 10
    /\ \A p \in EvalProcs :
           ev[p].pc # "idle" =>
               /\ ev[p].rateOk = ev[p].room
               /\ (ev[p].reason = "rate_limit") = ~ev[p].rateOk

\* a call is allowed although the stored window held 10 timestamps: they had
\* aged out and were pruned before the count
C3_Witness ==
    \E p \in EvalProcs :
        /\ ev[p].pc = "done" /\ ev[p].rateOk /\ ev[p].full
        /\ \E q \in EvalProcs : ev[q].pc = "done" /\ ev[q].reason = "blocked_domain"

\* C4: with several requests of one identity in flight, the window of the
\* identity never holds more than 10 timestamps.
C4_WindowAtMostTen ==
    \A i \in DOMAIN rateLimitStore : Len(rateLimitStore[i]) <= 10

\* two evaluations of the same identity are in flight and the window is full
C4_Witness ==
    /\ \A p \in EvalProcs : ev[p].pc = "probe" /\ ev[p].phoneNumber = "2348010001"
    /\ Len(rateLimitStore["2348010001"]) = 10

CheckOrder == <<"rate", "blocklist", "pattern", "length", "probe">>

\* C10: isUrlSafe runs rate limit, blocklist, suspicious pattern, length and
\* probe in this order, returns the reason of the first check that fails and
\* runs no check after it; the probe is issued only after the four others passed.
C10_FirstFailureWins ==
    \A p \in EvalProcs :
        ev[p].pc # "idle" =>
            LET c == UrlChecks[ev[p].url]
                r == ev[p].reason
                static == /\ ev[p].rateOk /\ c.blocklistSafe /\ c.patternSafe
                          /\ c.length <= 2000
            IN  /\ (r = "rate_limit") = ~ev[p].rateOk
                /\ (r = "blocked_domain") = (ev[p].rateOk /\ ~c.blocklistSafe)
                /\ (r = "suspicious_pattern") =
                       (ev[p].rateOk /\ c.blocklistSafe /\ ~c.patternSafe)
                /\ (r = "url_too_long") =
                       (/\ ev[p].rateOk /\ c.blocklistSafe /\ c.patternSafe
                        /\ c.length > 2000)
                /\ (r = "url_not_found") => (static /\ ev[p].status = 404)
                /\ (ev[p].pc = "probe" \/ ev[p].checks = CheckOrder) = static
                /\ ev[p].checks = SubSeq(CheckOrder, 1, Len(ev[p].checks))
                /\ (r \notin {"", "url_not_found"}) =>
                       Len(ev[p].checks) =
                           CASE r = "rate_limit" -> 1
                             [] r = "blocked_domain" -> 2
                             [] r = "suspicious_pattern" -> 3
                             [] r = "url_too_long" -> 4

\* a URL that fails the blocklist and the pattern check was denied as blocked_domain
C10_Witness ==
    \E p \in EvalProcs :
        /\ ev[p].pc = "done" /\ ev[p].url = "blocked"
        /\ ~UrlChecks["blocked"].blocklistSafe /\ ~UrlChecks["blocked"].patternSafe
        /\ ev[p].reason = "blocked_domain"
        /\ ev[p].checks = <<"rate", "blocklist">>

\* C11: the probe denies, with reason url_not_found, only when the HEAD
\* request answered 404; after any other outcome (2xx, another error status,
\* timeout or network error) a URL that passed the earlier checks is allowed.
C11_ProbeDeniesOnly404 ==
    \A p \in EvalProcs :
        (ev[p].pc = "done" /\ Len(ev[p].checks) = 5) =>
            /\ ev[p].reason \in {"", "url_not_found"}
            /\ (ev[p].reason = "url_not_found") = (ev[p].status = 404)

\* one evaluation was allowed after a 500 answer, another after the request
\* threw
C11_Witness ==
    \E p, q \in EvalProcs :
        /\ ev[p].pc = "done" /\ Len(ev[p].checks) = 5
        /\ ev[p].status = 500 /\ ev[p].reason = ""
        /\ ev[q].pc = "done" /\ Len(ev[q].checks) = 5
        /\ ev[q].status = 0 /\ ev[q].reason = ""

\* C12: a URL that passes the rate-limit, blocklist and pattern checks is
\* denied as url_too_long exactly when it has more than 2000 characters.
C12_LengthBoundary ==
    \A p \in EvalProcs :
        LET c == UrlChecks[ev[p].url]
        IN  (ev[p].pc # "idle" /\ ev[p].rateOk /\ c.blocklistSafe /\ c.patternSafe)
                => (ev[p].reason = "url_too_long") = (c.length >= 2001)

\* a URL of 2000 characters went on to the probe and one of 2001 characters
\* was denied as url_too_long
C12_Witness ==
    \E p, q \in EvalProcs :
        /\ ev[p].pc = "probe" /\ UrlChecks[ev[p].url].length = 2000
        /\ ev[q].pc = "done" /\ UrlChecks[ev[q].url].length = 2001
        /\ ev[q].rateOk /\ ev[q].reason = "url_too_long"

\* --------------------------------------------- creation specification
\* URLs submitted: linkService.js has no Security Gate, so a blocked URL
\* is one more valid URL there
ShortenUrls == IF impl = "part002" THEN {"ok", "blocked"} ELSE {"ok"}
ShortenIdentities == {"2348010001"}

InitShorten ==
    /\ impl \in Impls
    /\ uniqueIndex \in BOOLEAN
    /\ users = <<>>
    /\ links = <<>>
    /\ clicks = <<>>
    /\ tr = <<>>
    /\ clickCalls = 0
    /\ okClicks = <<>>
    /\ failedClicks = FALSE
    /\ sh = [p \in ShortenProcs |-> IdleShorten]
    /\ shortenCalls = 0
    /\ lookedUp = {}
    /\ now = 0
    /\ ticks = 0
    /\ rateLimitStore = <<>>
    /\ passed = [i \in Identities |-> <<>>]
    /\ ev = <<>>
    /\ server = "first"
    /\ rq = <<>>
    /\ requests = 0
    /\ pg = NoPage
    /\ bot = IdleBot

NextShorten ==
    \/ \E p \in ShortenProcs, ok \in BOOLEAN :
           \/ \E u \in ShortenUrls, i \in ShortenIdentities : ShortenStart(p, u, i, ok)
           \/ \E o \in ProbeOutcomes : ShortenProbe(p, o, ok)
           \/ UserSelect(p, ok)
           \/ UserInsert(p, ok)
           \/ \E draws \in Draws : CodeAttempt(p, draws, ok)
           \/ LinkInsert(p, ok)
           \/ CountRpc(p, ok)
           \/ CountManual(p, ok)
    \/ \E p \in ShortenProcs : HandleReply(p)

SpecShorten == InitShorten /\ [][NextShorten]_vars

\* C2: no two rows of shortened_links hold the same short_code, whatever the
\* interleaving of shortenUrl calls.
C2_ShortCodesDistinct ==
    \A i, j \in DOMAIN links :
        i # j => links[i].short_code # links[j].short_code

ValidFormat(code) == Len(code) = 6 /\ \A k \in DOMAIN code : code[k] < 62

\* C7: every code shortenUrl looks up in the registry or inserts is exactly
\* six characters from a-z, A-Z, 0-9.
C7_CodeFormat ==
    /\ \A code \in lookedUp : ValidFormat(code)
    /\ \A i \in DOMAIN links : ValidFormat(links[i].short_code)

\* C8: a shortenUrl call makes at most 10 allocation attempts; when it fails
\* with 'Failed to generate unique short code' it has made exactly 10 (read
\* while the failed call is still awaiting its reply), has inserted no link
\* row and has not changed total_links_created.
C8_AttemptsCapped ==
    \A p \in ShortenProcs :
        /\ sh[p].attempts <= 10
        /\ (sh[p].pc = "thrown" /\ sh[p].err = "Failed to generate unique short code")
              => /\ sh[p].reply = NoReply => sh[p].attempts = 10
                 /\ sh[p].linkId = 0
                 /\ ~sh[p].counted
        /\ sh[p].pc \in {"linkInsert", "rpc", "manual", "done"} => sh[p].isUnique

\* a call of linkService.js collided with the registry ten times and failed
C8_Witness ==
    \E p \in ShortenProcs :
        /\ impl = "linkService"
        /\ sh[p].pc = "thrown"
        /\ sh[p].err = "Failed to generate unique short code"
        /\ LinksWithCode(sh[p].shortCode) # {}
        /\ \E q \in ShortenProcs : sh[q].pc = "done"

\* C9: an insert rejected with DuplicateCode is not surfaced to the caller;
\* shortenUrl regenerates and retries.
C9_DuplicateNotSurfaced ==
    \A p \in ShortenProcs : ~(sh[p].pc = "thrown" /\ sh[p].err = "DuplicateCode")

\* C13: a shortened_links row is inserted only by a shortenUrl call in which
\* the Security Gate (isUrlSafe, rate limit included) allowed the URL and the
\* identity beforehand.
C13_GateBeforeInsert ==
    \A p \in ShortenProcs : sh[p].linkId # 0 => sh[p].gate

\* reason codes with which the Security Gate denies
GateReasons ==
    {"rate_limit", "blocked_domain", "suspicious_pattern", "url_too_long",
     "url_not_found"}

\* C14: the reply to a creation request denied by the Security Gate is the
\* gate's denial message for that reason, and the reply to a successful
\* creation carries the short URL and the code of the created link.
C14_ReplyCarriesOutcome ==
    \A p \in ShortenProcs :
        sh[p].reply # NoReply =>
            /\ sh[p].err \in GateReasons => sh[p].reply.text = sh[p].err
            /\ sh[p].pc = "done" =>
                   /\ sh[p].reply.text = "link_shortened"
                   /\ sh[p].reply.code = sh[p].shortCode

\* --------------------------------------------- redirect specification
Servers == {"first", "second"}
CodeOk == generateShortCode(<<0, 0, 0>>)
CodeNoScheme == generateShortCode(<<0, 0, 1>>)
CodeBadHost == generateShortCode(<<0, 0, 2>>)
CodeInactive == generateShortCode(<<0, 0, 3>>)
CodeUnknown == generateShortCode(<<0, 0, 4>>)
RequestCodes == {CodeOk, CodeNoScheme, CodeBadHost, CodeInactive, CodeUnknown}
RequestAddresses == {"10.0.0.1"}

InitRedirect ==
    /\ impl \in Impls
    /\ uniqueIndex = TRUE
    /\ users = <<[phone_number |-> "2348010001", total_links_created |-> 4]>>
    /\ links = <<NewLink(1, "ok", CodeOk),
                 NewLink(1, "noScheme", CodeNoScheme),
                 NewLink(1, "badHost", CodeBadHost),
                 [NewLink(1, "ok", CodeInactive) EXCEPT !.is_active = FALSE]>>
    /\ clicks = <<>>
    /\ tr = [p \in TrackProcs |-> IdleTrack]
    /\ clickCalls = 0
    /\ okClicks = [l \in 1..4 |-> 0]
    /\ failedClicks = FALSE
    /\ sh = [p \in ShortenProcs |-> IdleShorten]
    /\ shortenCalls = 0
    /\ lookedUp = {}
    /\ now = 0
    /\ ticks = 0
    /\ rateLimitStore = <<>>
    /\ passed = [i \in Identities |-> <<>>]
    /\ ev = [p \in EvalProcs |-> IdleEval]
    /\ server \in Servers
    /\ rq = [p \in RequestProcs |-> IdleRequest]
    /\ requests = 0
    /\ pg = NoPage
    /\ bot = IdleBot

NextRedirect ==
    \E p \in RequestProcs, ok \in BOOLEAN :
        \/ \E c \in RequestCodes, ip \in RequestAddresses : RedirectLookup(p, c, ip, ok)
        \/ RedirectTrack(p, ok)
        \/ TrackInsert(p, ok)
        \/ TrackFetch(p, ok)
        \/ TrackUpdate(p, ok)
        \/ TrackUpdateRaw(p, ok)
        \/ RedirectRespond(p)

SpecRedirect == InitRedirect /\ [][NextRedirect]_vars

C16_NotFound ==
    /\ \A p \in RequestProcs :
           (/\ rq[p].pc # "idle"
            /\ ~\E i \in DOMAIN links : /\ links[i].short_code = rq[p].shortCode
                                        /\ links[i].is_active) =>
               /\ rq[p].pc = "done"
               /\ rq[p].status = 404
               /\ rq[p].location = <<>>
               /\ ~rq[p].tracked
    /\ \A i \in DOMAIN clicks : links[clicks[i].link_id].is_active

\* the code of the deactivated link was requested and answered 404
C16_Witness ==
    \E p \in RequestProcs :
        /\ rq[p].pc = "done" /\ rq[p].shortCode = CodeInactive /\ rq[p].status = 404
        /\ \E i \in DOMAIN links : links[i].short_code = CodeInactive
        /\ requests = 1
        /\ clicks = <<>>

\* C18: on a request for an active link, a stored URL without http:// or
\* https:// is redirected to with https:// prepended; when the resulting
\* text is not a well-formed URL the answer is 400 and no ClickEvent is
\* recorded (tracking happens only on the path that ends in the 302).
C18_SchemeNormalized ==
    \A p \in RequestProcs :
        (rq[p].pc = "done" /\ rq[p].link # 0) =>
            LET stored == UrlText(links[rq[p].link].original_url)
                target == IF HasScheme(trim(stored)) THEN trim(stored)
                          ELSE <<"h","t","t","p","s",":","/","/">> \o trim(stored)
            IN  IF NewUrlAccepts(target)
                THEN rq[p].status = 302 /\ rq[p].location = target
                ELSE rq[p].status = 400 /\ ~rq[p].tracked /\ rq[p].location = <<>>

\* ------------------------------------------- round-trip specification
InitRoundTrip ==
    /\ impl \in Impls
    /\ uniqueIndex \in BOOLEAN
    /\ users = <<>>
    /\ links = <<>>
    /\ clicks = <<>>
    /\ tr = [p \in TrackProcs |-> IdleTrack]
    /\ clickCalls = 0
    /\ okClicks = [l \in 1..(MaxShortenCalls + 1) |-> 0]
    /\ failedClicks = FALSE
    /\ sh = [p \in ShortenProcs |-> IdleShorten]
    /\ shortenCalls = 0
    /\ lookedUp = {}
    /\ now = 0
    /\ ticks = 0
    /\ rateLimitStore = <<>>
    /\ passed = [i \in Identities |-> <<>>]
    /\ ev = [p \in EvalProcs |-> IdleEval]
    /\ server \in Servers
    /\ rq = [p \in RequestProcs |-> IdleRequest]
    /\ requests = 0
    /\ pg = NoPage
    /\ bot = IdleBot

\* every creation request has been answered
NoShortenInProgress ==
    \A p \in ShortenProcs : sh[p].pc = "idle" \/ sh[p].reply # NoReply

NoRequestInProgress ==
    \A p \in RequestProcs : rq[p].pc \in {"idle", "done"}

\* links are created through shortenUrl; once the creations have settled,
\* the codes of the links are requested one request at a time (part_002
\* creates no link, so its counter update is never reached here)
NextRoundTrip ==
    \/ requests = 0 /\ NextShorten
    \/ \E p \in RequestProcs, ok \in BOOLEAN :
           \/ \E l \in DOMAIN links, ip \in RequestAddresses :
                  /\ NoShortenInProgress
                  /\ NoRequestInProgress
                  /\ RedirectLookup(p, links[l].short_code, ip, ok)
           \/ RedirectTrack(p, ok)
           \/ TrackInsert(p, ok)
           \/ TrackFetch(p, ok)
           \/ TrackUpdate(p, ok)
           \/ RedirectRespond(p)

SpecRoundTrip == InitRoundTrip /\ [][NextRoundTrip]_vars

\* C17: a link that shortenUrl created for URL u and returned with code c is
\* found by getLinkByShortCode(c), and GET /c answers 302 with Location u
\* (trimmed) or https:// followed by u.
C17_RoundTrip ==
    \A p \in RequestProcs :
        (/\ rq[p].pc = "done"
         /\ \E q \in ShortenProcs :
                /\ sh[q].pc = "done"
                /\ links[sh[q].linkId].short_code = rq[p].shortCode
         /\ ~(rq[p].matching = 1 /\ rq[p].link = 0)) =>
            /\ rq[p].link # 0
            /\ rq[p].status = 302
            /\ LET u == UrlText(links[rq[p].link].original_url)
               IN  rq[p].location \in {trim(u), <<"h","t","t","p","s",":","/","/">> \o u}

LinksOwnedBy(u) == {l \in DOMAIN links : links[l].user_id = u}

\* C19: whenever no shortenUrl call is in progress, each user's
\* total_links_created equals the number of shortened_links rows the user
\* owns, also after concurrent calls for the same identity.
C19_LinkCountMatches ==
    NoShortenInProgress =>
        \A u \in DOMAIN users :
            users[u].total_links_created = Cardinality(LinksOwnedBy(u))

\* C20: when the link insert succeeded and the increment of the user's link
\* counter then failed, shortenUrl still returns the created link and the
\* row stays stored: the failure is not thrown.
C20_CounterFailureKeepsLink ==
    \A p \in ShortenProcs :
        sh[p].linkId # 0 =>
            /\ sh[p].linkId \in DOMAIN links
            /\ links[sh[p].linkId].short_code = sh[p].shortCode
            /\ sh[p].pc \in {"rpc", "manual", "done"}
            /\ sh[p].reply # NoReply => sh[p].reply.text = "link_shortened"

\* a call returned its link although the RPC and the manual update both failed
C20_Witness ==
    \E p \in ShortenProcs :
        /\ sh[p].pc = "done" /\ sh[p].linkId # 0 /\ ~sh[p].counted
        /\ users[sh[p].userId].total_links_created = 0
        /\ sh[p].reply.text = "link_shortened"

\* C21: after any interleaving of shortenUrl calls there is at most one users
\* row per identity, and every link references a users row that exists.
C21_OneUserPerIdentity ==
    /\ \A i, j \in DOMAIN users :
           i # j => users[i].phone_number # users[j].phone_number
    /\ \A l \in DOMAIN links : links[l].user_id \in DOMAIN users

\* C22: every verdict of the Security Gate in a creation request, allow or
\* deny, leaves one security event with the identity, the URL, the reason
\* and the outcome, also when the creation failed after the gate allowed.
C22_VerdictsLogged ==
    \A p \in ShortenProcs :
        (sh[p].reply # NoReply /\ (sh[p].gate \/ sh[p].err \in GateReasons)) =>
            /\ sh[p].event.phoneNumber = sh[p].phoneNumber
            /\ sh[p].event.url = sh[p].url
            /\ sh[p].event.action = IF sh[p].gate THEN "allowed" ELSE "blocked"
            /\ ~sh[p].gate => sh[p].event.reason = sh[p].err

\* C23: a checkRateLimit call that returns false appends no timestamp; the
\* window it leaves is exactly the timestamps of the window before that are
\* less than one hour old.
C23_DeniedAppendsNothing ==
    [][\A p \in EvalProcs :
          (ev'[p] # ev[p] /\ ev'[p].pc = "done" /\ ev'[p].reason = "rate_limit") =>
              rateLimitStore'[ev'[p].phoneNumber] =
                  SelectSeq(rateLimitStore[ev'[p].phoneNumber],
                            LAMBDA t : t > now - HourMs)]_vars

\* a call was denied by the rate limit after time had passed
C23_Witness ==
    \E p \in EvalProcs :
        /\ ev[p].pc = "done" /\ ev[p].reason = "rate_limit" /\ ~ev[p].rateOk
        /\ ticks > 0
        /\ Len(rateLimitStore[ev[p].phoneNumber]) = RateLimit

\* ------------------------------------------------------ a burst of clicks
\* redirects of one link requested from one address, up to three in flight
BurstProcs == 1..3
BurstLink == 1
BurstAddress == "10.0.0.1"

InitBurst ==
    /\ impl \in Impls
    /\ uniqueIndex = TRUE
    /\ users = <<[phone_number |-> "2348010001", total_links_created |-> 2]>>
    /\ links = <<NewLink(1, "ok", generateShortCode(<<0, 0, 0>>)),
                 NewLink(1, "ok", generateShortCode(<<255, 255, 255>>))>>
    /\ clicks = <<>>
    /\ tr = [p \in BurstProcs |-> IdleTrack]
    /\ clickCalls = 0
    /\ okClicks = [l \in 1..2 |-> 0]
    /\ failedClicks = FALSE
    /\ sh = [p \in ShortenProcs |-> IdleShorten]
    /\ shortenCalls = 0
    /\ lookedUp = {}
    /\ now = 0
    /\ ticks = 0
    /\ rateLimitStore = <<>>
    /\ passed = [i \in Identities |-> <<>>]
    /\ ev = [p \in EvalProcs |-> IdleEval]
    /\ server = "first"
    /\ rq = [p \in RequestProcs |-> IdleRequest]
    /\ requests = 0
    /\ pg = NoPage
    /\ bot = IdleBot

NextBurst ==
    \E p \in BurstProcs, ok \in BOOLEAN :
        \/ TrackLookup(p, BurstLink, BurstAddress, PlainUserAgent, ok)
        \/ TrackInsert(p, ok)
        \/ TrackFetch(p, ok)
        \/ TrackUpdate(p, ok)
        \/ TrackUpdateRaw(p, ok)

SpecBurst == InitBurst /\ [][NextBurst]_vars

\* C24: when concurrent trackClick calls of one address hit a link that has
\* no event of that address, and every store call succeeds, at most two of
\* the stored events are flagged is_unique and unique_clicks grows by at
\* most 2.
C24_BurstAtMostOneExtra ==
    (~failedClicks /\ \A p \in BurstProcs : ~tr[p].storeFailed) =>
        /\ Cardinality(UniqueClicksOfLink(BurstLink)) <= 2
        /\ links[BurstLink].unique_clicks <= 2

\* C25: from a link without clicks, two trackClick calls of one address made
\* one after the other, all store calls succeeding, return isUnique true and
\* then false and leave unique_clicks = 1 and total_clicks = 2.
C25_TrueThenFalse ==
    \A p \in TrackProcs :
        ( /\ tr[p].pc = "done" /\ ~failedClicks /\ ~tr[p].storeFailed
          /\ \A i \in DOMAIN clicks : /\ clicks[i].link_id = tr[p].linkId
                                       /\ clicks[i].ip_address = tr[p].ip ) =>
            /\ Len(clicks) = 1 =>
                   /\ tr[p].ret = [success |-> TRUE, isUnique |-> TRUE]
                   /\ clicks[1].is_unique
                   /\ links[tr[p].linkId].unique_clicks = 1
                   /\ links[tr[p].linkId].total_clicks = 1
            /\ Len(clicks) = 2 =>
                   /\ tr[p].ret = [success |-> TRUE, isUnique |-> FALSE]
                   /\ clicks[1].is_unique /\ ~clicks[2].is_unique
                   /\ links[tr[p].linkId].unique_clicks = 1
                   /\ links[tr[p].linkId].total_clicks = 2

\* the second of two sequential clicks of one address has returned
C25_Witness ==
    \E p \in TrackProcs :
        /\ tr[p].pc = "done" /\ ~failedClicks /\ ~tr[p].storeFailed
        /\ Len(clicks) = 2 /\ clickCalls = 2
        /\ \A i \in DOMAIN clicks : /\ clicks[i].link_id = tr[p].linkId
                                     /\ clicks[i].ip_address = tr[p].ip
        /\ ~tr[p].ret.isUnique

\* --------------------------------------------------- user agent parsing
MaxParseCalls == 1

InitParse ==
    /\ InitBurst
    /\ impl = "linkService"

\* clicks of one link, one at a time, with every sample user agent
NextParse ==
    \E ok \in BOOLEAN :
        \/ \E userAgent \in UserAgents :
               /\ clickCalls < MaxParseCalls
               /\ TrackLookup(1, BurstLink, BurstAddress, userAgent, ok)
        \/ TrackInsert(1, ok)
        \/ TrackFetch(1, ok)
        \/ TrackUpdate(1, ok)

SpecParse == InitParse /\ [][NextParse]_vars

Has(userAgent, token) == \E i \in DOMAIN userAgent : userAgent[i] = token

\* C29: for every user agent built from the tokens, the device type is mobile
\* if it names Mobile, Android or iPhone, else tablet if it names Tablet or
\* iPad, else desktop, and the browser is the first of Chrome, Firefox,
\* Safari, Edge that it names, else Unknown, whatever the order and the
\* letter case of the tokens in the header.
C29_OrderedRules ==
    \A p \in DOMAIN tr :
        tr[p].pc # "idle" =>
            LET ua == tr[p].userAgent
            IN  /\ tr[p].deviceType =
                       IF Has(ua, "Mobile") \/ Has(ua, "Android") \/ Has(ua, "iPhone")
                       THEN "mobile"
                       ELSE IF Has(ua, "Tablet") \/ Has(ua, "iPad") THEN "tablet"
                       ELSE "desktop"
                /\ tr[p].browser =
                       CASE Has(ua, "Chrome") -> "Chrome"
                         [] ~Has(ua, "Chrome") /\ Has(ua, "Firefox") -> "Firefox"
                         [] ~Has(ua, "Chrome") /\ ~Has(ua, "Firefox")
                                /\ Has(ua, "Safari") -> "Safari"
                         [] ~Has(ua, "Chrome") /\ ~Has(ua, "Firefox")
                                /\ ~Has(ua, "Safari") /\ Has(ua, "Edge") -> "Edge"
                         [] OTHER -> "Unknown"
                /\ \A i \in DOMAIN clicks :
                       clicks[i].user_agent = ua =>
                           /\ clicks[i].device_type = tr[p].deviceType
                           /\ clicks[i].browser = tr[p].browser

\* a click whose user agent names Safari before Chrome was stored as a
\* Chrome click
C29_Witness ==
    /\ \E i \in DOMAIN clicks :
           /\ clicks[i].user_agent = <<"Safari", "Chrome">>
           /\ clicks[i].browser = "Chrome"
    /\ \E p \in DOMAIN tr :
           /\ tr[p].userAgent = <<"Safari", "Chrome">>
           /\ tr[p].pc = "done"

\* ------------------------------------------------ statistics specification
StatsUserAgents == {<<"Firefox">>}
StatsCodes == {CodeOk, CodeUnknown}
TodayClicks == 0..1

\* one link that was clicked twice, from a phone and from a desktop browser
InitStats ==
    /\ impl \in Impls
    /\ uniqueIndex = TRUE
    /\ users = <<[phone_number |-> "2348010001", total_links_created |-> 1]>>
    /\ links = <<[NewLink(1, "ok", CodeOk) EXCEPT !.total_clicks = 2,
                                                  !.unique_clicks = 2]>>
    /\ clicks = <<[link_id |-> 1, ip_address |-> "10.0.0.2",
                   user_agent |-> <<"iPhone", "Safari">>,
                   device_type |-> "mobile", browser |-> "Safari",
                   is_unique |-> TRUE],
                  [link_id |-> 1, ip_address |-> "10.0.0.3",
                   user_agent |-> <<"Chrome">>,
                   device_type |-> "desktop", browser |-> "Chrome",
                   is_unique |-> TRUE]>>
    /\ tr = [p \in TrackProcs |-> IdleTrack]
    /\ clickCalls = 0
    /\ okClicks = <<2>>
    /\ failedClicks = FALSE
    /\ sh = [p \in ShortenProcs |-> IdleShorten]
    /\ shortenCalls = 0
    /\ lookedUp = {}
    /\ now = 0
    /\ ticks = 0
    /\ rateLimitStore = <<>>
    /\ passed = [i \in Identities |-> <<>>]
    /\ ev = [p \in EvalProcs |-> IdleEval]
    /\ server = "first"
    /\ rq = [p \in RequestProcs |-> IdleRequest]
    /\ requests = 0
    /\ pg = NoPage
    /\ bot = IdleBot

NextStats ==
    \E p \in TrackProcs, ok \in BOOLEAN :
        \/ \E userAgent \in StatsUserAgents :
               /\ NoClickInProgress
               /\ TrackLookup(p, 1, BurstAddress, userAgent, ok)
        \/ TrackInsert(p, ok)
        \/ TrackFetch(p, ok)
        \/ TrackUpdate(p, ok)
        \/ TrackUpdateRaw(p, ok)
        \/ \E c \in StatsCodes, n \in TodayClicks : StatsRequest(c, ok, n)

SpecStats == InitStats /\ [][NextStats]_vars

\* C26: getLinkStats changes no link counter, no click row and no users row,
\* and two calls for one code that both return statistics, with no trackClick
\* step between them, return the same total_clicks, unique_clicks, device
\* breakdown and browser breakdown.
C26_StatsReadOnly ==
    [][(pg' # pg /\ pg'.route = "stats") =>
          /\ users' = users /\ links' = links /\ clicks' = clicks
          /\ ( /\ pg.route = "stats" /\ pg.shortCode = pg'.shortCode
               /\ pg.stats.found /\ pg'.stats.found
               /\ pg.at = pg'.at ) =>
                  /\ pg'.stats.total_clicks = pg.stats.total_clicks
                  /\ pg'.stats.unique_clicks = pg.stats.unique_clicks
                  /\ pg'.stats.deviceBreakdown = pg.stats.deviceBreakdown
                  /\ pg'.stats.browserBreakdown = pg.stats.browserBreakdown]_vars

\* statistics were returned a second time with no trackClick step since the
\* first, for a link that a trackClick call in progress has added a click to
C26_Witness ==
    /\ pg.repeat /\ pg.stats.found
    /\ Cardinality(pg.stats.deviceBreakdown) = 2
    /\ \E p \in TrackProcs : tr[p].pc \in {"fetch", "update"}
    /\ \E e \in pg.stats.browserBreakdown : e.key = "Firefox"

\* ------------------------------------------------- pages specification
CodeUnicode == generateShortCode(<<0, 0, 5>>)
PageCodes == {CodeOk, CodeUnicode, CodeInactive, CodeUnknown}

\* two links, one of them to a URL with a character outside Latin-1, and a
\* deactivated link
InitPages ==
    /\ impl \in Impls
    /\ uniqueIndex = TRUE
    /\ users = <<[phone_number |-> "2348010001", total_links_created |-> 3]>>
    /\ links = <<NewLink(1, "ok", CodeOk), NewLink(1, "unicode", CodeUnicode),
                 [NewLink(1, "ok", CodeInactive) EXCEPT !.is_active = FALSE]>>
    /\ clicks = <<>>
    /\ tr = [p \in TrackProcs |-> IdleTrack]
    /\ clickCalls = 0
    /\ okClicks = [l \in 1..3 |-> 0]
    /\ failedClicks = FALSE
    /\ sh = [p \in ShortenProcs |-> IdleShorten]
    /\ shortenCalls = 0
    /\ lookedUp = {}
    /\ now = 0
    /\ ticks = 0
    /\ rateLimitStore = <<>>
    /\ passed = [i \in Identities |-> <<>>]
    /\ ev = [p \in EvalProcs |-> IdleEval]
    /\ server \in Servers
    /\ rq = [p \in RequestProcs |-> IdleRequest]
    /\ requests = 0
    /\ pg = NoPage
    /\ bot = IdleBot

NextPages ==
    \/ \E p \in RequestProcs, ok \in BOOLEAN :
           \/ \E c \in PageCodes, ip \in RequestAddresses :
                  NoRequestInProgress /\ RedirectLookup(p, c, ip, ok)
           \/ RedirectTrack(p, ok)
           \/ TrackInsert(p, ok)
           \/ TrackFetch(p, ok)
           \/ TrackUpdate(p, ok)
           \/ TrackUpdateRaw(p, ok)
    \/ \E p \in RequestProcs : RedirectRespond(p)
    \/ \E c \in PageCodes, ok \in BOOLEAN :
           \/ StatsRequest(c, ok, 0)
           \/ PreviewRequest(c, ok)

SpecPages == InitPages /\ [][NextPages]_vars

\* the values that identify rows of the store or their owner
InternalIdentifiers ==
    {"link.id", "link.user_id", "link.users.phone_number",
     "stats.id", "stats.user_id", "stats.users.phone_number"}

PublicFields ==
    {"shortCode", "stats.short_code", "stats.short_url", "stats.total_clicks",
     "stats.unique_clicks", "stats.todayClicks", "stats.created_at",
     "stats.deviceBreakdown", "stats.browserBreakdown",
     "link.short_url", "link.original_url", "link.total_clicks",
     "link.unique_clicks", "link.created_at"}

\* C27: the body of an answer of GET /api/stats/{code} or GET /preview/{code}
\* holds no internal identifier (link id, user id, owner's phone number) and
\* nothing but the public fields.
C27_NoInternalIdentifier ==
    pg.route \in {"stats", "preview"} =>
        /\ pg.body \cap InternalIdentifiers = {}
        /\ pg.body \subseteq PublicFields

\* C28: the body of a 404 or 500 answer of GET /{code}, GET /api/stats/{code}
\* or GET /preview/{code} holds neither the text of an internal error nor an
\* internal identifier.
C28_NoErrorTextInBody ==
    /\ \A p \in RequestProcs :
           rq[p].status \in {404, 500} =>
               rq[p].body \cap ({"error.message", "error.stack"}
                                  \cup InternalIdentifiers) = {}
    /\ pg.status \in {404, 500} =>
           pg.body \cap ({"error.message", "error.stack"} \cup InternalIdentifiers) = {}

\* ----------------------------------------------- service specification
\* every operation of LinkService, on a store that holds a clicked link
MaxServiceCalls == 1

InitService ==
    /\ impl \in Impls
    /\ uniqueIndex = TRUE
    /\ users = <<[phone_number |-> "2348010001", total_links_created |-> 2]>>
    /\ links = <<[NewLink(1, "ok", CodeOk) EXCEPT !.total_clicks = 2,
                                                  !.unique_clicks = 2],
                 NewLink(1, "ok", CodeNoScheme)>>
    /\ clicks = <<[link_id |-> 1, ip_address |-> BurstAddress,
                   user_agent |-> <<"iPhone", "Safari">>,
                   device_type |-> "mobile", browser |-> "Safari",
                   is_unique |-> TRUE],
                  [link_id |-> 1, ip_address |-> "10.0.0.3",
                   user_agent |-> <<"Chrome">>,
                   device_type |-> "desktop", browser |-> "Chrome",
                   is_unique |-> TRUE]>>
    /\ tr = [p \in TrackProcs |-> IdleTrack]
    /\ clickCalls = 0
    /\ okClicks = [l \in 1..(MaxServiceCalls + 3) |-> IF l = 1 THEN 2 ELSE 0]
    /\ failedClicks = FALSE
    /\ sh = [p \in ShortenProcs |-> IdleShorten]
    /\ shortenCalls = 0
    /\ lookedUp = {}
    /\ now = 0
    /\ ticks = 0
    /\ rateLimitStore = <<>>
    /\ passed = [i \in Identities |-> <<>>]
    /\ ev = [p \in EvalProcs |-> IdleEval]
    /\ server = "first"
    /\ rq = [p \in RequestProcs |-> IdleRequest]
    /\ requests = 0
    /\ pg = NoPage
    /\ bot = IdleBot

\* no call of shortenUrl or trackClick is in progress
Quiet ==
    /\ NoClickInProgress
    /\ \A p \in ShortenProcs : sh[p].pc \in {"idle", "done", "thrown"}

\* the operations are called one at a time, the creations first
NextService ==
    \/ \E p \in ShortenProcs, ok \in BOOLEAN :
           \/ \E u \in ShortenUrls, i \in ShortenIdentities :
                  /\ Quiet /\ clickCalls = 0 /\ pg = NoPage
                  /\ shortenCalls < MaxServiceCalls
                  /\ ShortenStart(p, u, i, ok)
           \/ \E o \in ProbeOutcomes : ShortenProbe(p, o, ok)
           \/ UserSelect(p, ok)
           \/ UserInsert(p, ok)
           \/ \E draws \in Draws : CodeAttempt(p, draws, ok)
           \/ LinkInsert(p, ok)
           \/ CountRpc(p, ok)
           \/ CountManual(p, ok)
           \/ HandleReply(p)
    \/ \E p \in TrackProcs, ok \in BOOLEAN :
           \/ \E l \in 1..2 :
                  /\ Quiet
                  /\ clickCalls < MaxServiceCalls
                  /\ TrackLookup(p, l, BurstAddress, PlainUserAgent, ok)
           \/ TrackInsert(p, ok)
           \/ TrackFetch(p, ok)
           \/ TrackUpdate(p, ok)
           \/ TrackUpdateRaw(p, ok)
    \/ Quiet /\ StatsRequest(CodeOk, TRUE, 0)
    \/ Quiet /\ PreviewRequest(CodeOk, TRUE)
    \/ \E i \in ShortenIdentities : Quiet /\ GetUserLinks(i, TRUE)

SpecService == InitService /\ [][NextService]_vars

\* a step of the trackClick call in slot p that follows its insert
InsertStep(p) == tr[p].pc = "insert" /\ tr'[p].pc \in {"fetch", "update"}

\* the step of the trackClick call in slot p that writes the counters
UpdateStep(p) == tr[p].pc = "update" /\ tr'[p].pc = "done"

\* C30: link_clicks only grows, by one row of the call's link at the single
\* insert of a trackClick call, and no existing row changes; the counters of
\* a link change only in the counter update of a trackClick call for that
\* link; shortenUrl, getLinkByShortCode, getLinkStats and getUserLinks leave
\* the counters of every link as they were.
C30_ClicksAppendOnly ==
    [][/\ Len(clicks') >= Len(clicks)
       /\ SubSeq(clicks', 1, Len(clicks)) = clicks
       /\ clicks' # clicks =>
              /\ Len(clicks') = Len(clicks) + 1
              /\ \E p \in DOMAIN tr :
                     /\ InsertStep(p)
                     /\ clicks'[Len(clicks')].link_id = tr[p].linkId
       /\ \A l \in DOMAIN links :
              /\ l \in DOMAIN links'
              /\ ( \/ links'[l].total_clicks # links[l].total_clicks
                   \/ links'[l].unique_clicks # links[l].unique_clicks ) =>
                      \E p \in DOMAIN tr : UpdateStep(p) /\ tr[p].linkId = l]_vars

\* a trackClick call has added a click to a link that had clicks and raised
\* its counter, after a link was created and statistics, a preview and the
\* link list were read
C30_Witness ==
    /\ \E p \in TrackProcs : tr[p].pc = "done" /\ tr[p].ret.success /\ tr[p].linkId = 1
    /\ Len(clicks) = 3 /\ links[1].total_clicks = 3 /\ links[2].total_clicks = 0
    /\ Len(links) = 3
    /\ pg.route = "mylinks" /\ pg.userLinks = {1, 2, 3}

\* ----------------------------------------------------------------- /mylinks
\* .slice(0, 5) of the /mylinks reply
ListShown == 5

\* a shortened_links row with the created_at the store gave it
StampedLink(userId, code, createdAt) ==
    [user_id |-> userId, original_url |-> "ok", short_code |-> code,
     is_active |-> TRUE, total_clicks |-> 0, unique_clicks |-> 0,
     created_at |-> createdAt]

\* the orders in which the store may return the embedded rows
RECURSIVE Orderings(_)
Orderings(S) ==
    IF S = {} THEN {<<>>}
    ELSE UNION {{<<x>> \o s : s \in Orderings(S \ {x})} : x \in S}

\* one step of the sort with (a, b) => new Date(b.created_at) - new
\* Date(a.created_at): x goes behind every row that is not older (the sort is
\* stable)
RECURSIVE InsertNewest(_, _)
InsertNewest(s, x) ==
    IF s = <<>> THEN <<x>>
    ELSE IF links[Head(s)].created_at >= links[x].created_at
         THEN <<Head(s)>> \o InsertNewest(Tail(s), x)
         ELSE <<x>> \o s

RECURSIVE sortNewestFirst(_)
sortNewestFirst(s) ==
    IF s = <<>> THEN <<>>
    ELSE InsertNewest(sortNewestFirst(SubSeq(s, 1, Len(s) - 1)), s[Len(s)])

\* a variant that lists the rows in the order the store returned them
shownLinksUnsorted(rows) == slice(rows, 0, ListShown)

\* userData.shortened_links.sort(...).slice(0, 5)
shownLinks(rows) == slice(sortNewestFirst(rows), 0, ListShown)

\* getUserLinks: the users row of the identity, .single(); null (0) when no
\* row or several rows match and when the select fails
getUserLinks(phoneNumber, ok) ==
    IF ok THEN Single(UsersOf(phoneNumber)) ELSE 0

\* the shortened_links rows embedded in a users row
LinksOfUser(user) == {i \in DOMAIN links : links[i].user_id = user}

\* the /mylinks command: getUserLinks, its shortened_links rows in the order
\* the store returns them, then the reply: the fixed text when there is no
\* user or no link, else the five newest links
MyLinks(phoneNumber, ok, rows) ==
    /\ LET user == getUserLinks(phoneNumber, ok)
       IN  /\ Len(rows) = Cardinality(LinksOfUser(user))
           /\ {rows[k] : k \in 1..Len(rows)} = LinksOfUser(user)
           /\ pg' = [NoPage EXCEPT
                        !.route = "mylinks",
                        !.phoneNumber = phoneNumber,
                        !.userLinks = LinksOfUser(user),
                        !.listing = IF user = 0 \/ Len(rows) = 0 THEN <<>>
                                    ELSE shownLinks(rows)]
    /\ UNCHANGED <<schemaVars, bot, server, rq, requests, storeVars, clickVars,
                   shortenVars, gateVars, ev>>

ListLinks == 1..6
ListIdentities == {"2348010001", "2348010002", "2348010003"}
ListTimes == 1..2
ListOwners ==
    {[i \in ListLinks |-> 1], [i \in ListLinks |-> IF i \in {2, 5} THEN 2 ELSE 1]}

\* stores of six links created at two times, all by one user or four by one
\* and two by another, with or without a second users row for the first
\* identity
InitList ==
    /\ impl = "linkService"
    /\ uniqueIndex \in BOOLEAN
    /\ users \in {<<[phone_number |-> "2348010001", total_links_created |-> 0],
                    [phone_number |-> "2348010002", total_links_created |-> 0]>>} \cup
                 (IF uniqueIndex THEN {}
                  ELSE {<<[phone_number |-> "2348010001", total_links_created |-> 0],
                          [phone_number |-> "2348010002", total_links_created |-> 0],
                          [phone_number |-> "2348010001", total_links_created |-> 0]>>})
    /\ \E owner \in ListOwners, at \in [ListLinks -> ListTimes] :
           links = [i \in ListLinks |->
                       StampedLink(owner[i], generateShortCode(<<0, 1, i>>), at[i])]
    /\ clicks = <<>>
    /\ tr = <<>>
    /\ clickCalls = 0
    /\ okClicks = <<>>
    /\ failedClicks = FALSE
    /\ sh = <<>>
    /\ shortenCalls = 0
    /\ lookedUp = {}
    /\ now = 0
    /\ ticks = 0
    /\ rateLimitStore = <<>>
    /\ passed = <<>>
    /\ ev = <<>>
    /\ server = "first"
    /\ rq = <<>>
    /\ requests = 0
    /\ pg = NoPage
    /\ bot = IdleBot

\* one /mylinks command per store (the command writes nothing, so a second
\* one sees the same store)
NextList ==
    \E i \in ListIdentities, ok \in BOOLEAN :
        /\ pg = NoPage
    /\ bot = IdleBot
        /\        \E rows \in Orderings(LinksOfUser(getUserLinks(i, ok))) : MyLinks(i, ok, rows)

SpecList == InitList /\ [][NextList]_vars

\* C31: the links the /mylinks reply lists belong to a users row of the
\* asking identity, are at most five, each listed once, in order of creation
\* time with the newest first, and no link of that user left out is newer
\* than a listed one.
C31_ListingOwnedNewestFirst ==
    pg.route = "mylinks" =>
        LET l == pg.listing
        IN  /\ Len(l) <= ListShown
            /\ \A k \in 1..Len(l) :
                   /\ l[k] \in DOMAIN links
                   /\ users[links[l[k]].user_id].phone_number = pg.phoneNumber
            /\ \A j, k \in 1..Len(l) :
                   /\ j < k => links[l[j]].created_at >= links[l[k]].created_at
                   /\ j # k => l[j] # l[k]
            /\ \A i \in pg.userLinks \ {l[k] : k \in 1..Len(l)} :
                   /\ Len(l) = ListShown
                   /\ links[i].created_at <= links[l[ListShown]].created_at

\* an identity with six links got five of them, an older one left out, and
\* the listing is not in the order of the row ids
C31_Witness ==
    /\ pg.route = "mylinks"
    /\ Len(pg.listing) = ListShown
    /\ Cardinality(pg.userLinks) = 6
    /\ \E i \in pg.userLinks :
           /\ \A k \in 1..ListShown : pg.listing[k] # i
           /\ links[i].created_at < links[pg.listing[1]].created_at
    /\ \E j, k \in 1..ListShown : j < k /\ pg.listing[j] > pg.listing[k]

\* C32: a shortenUrl call that the Security Gate allowed ends with 'Failed
\* to generate unique short code' only when the code it generated last is
\* held by a stored link; otherwise it inserts a link and returns it.
C32_AllocationSucceeds ==
    \A p \in ShortenProcs :
        /\ ( /\ sh[p].pc = "thrown"
             /\ sh[p].err = "Failed to generate unique short code"
             /\ impl = "part002" => sh[p].gate )
               => LinksWithCode(sh[p].shortCode) # {}
        /\ sh[p].pc = "done" =>
               /\ sh[p].linkId \in DOMAIN links
               /\ links[sh[p].linkId].short_code = sh[p].shortCode

\* C33: in every state, whatever the interleaving of trackClick calls, each
\* link has unique_clicks <= total_clicks.
C33_UniqueAtMostTotal ==
    \A l \in DOMAIN links : links[l].unique_clicks <= links[l].total_clicks

\* linkService.js lost a counter update: a link counts fewer clicks than the
\* calls that succeeded on it, and two calls that were first from their
\* address have written its counters
C33_Witness ==
    /\ impl = "linkService"
    /\ \E l \in DOMAIN links :
           /\ links[l].total_clicks < okClicks[l]
           /\ links[l].unique_clicks >= 1
           /\ Cardinality({p \in TrackProcs :
                  tr[p].pc = "done" /\ tr[p].linkId = l /\ tr[p].isUnique}) = 2

\* C34: the step in which the Security Gate denies a shortenUrl call leaves
\* users and shortened_links as they were, and the denied call has read or
\* created no user row, inserted no link and counted nothing.
C34_DeniedWritesNothing ==
    [][\A p \in DOMAIN sh :
           (sh'[p] # sh[p] /\ sh'[p].pc = "thrown" /\ sh'[p].err \in GateReasons) =>
               /\ users' = users
               /\ links' = links
               /\ sh'[p].userId = 0
               /\ sh'[p].linkId = 0
               /\ ~sh'[p].counted]_vars

\* a call was denied after its probe while the store held a user, and the
\* identity's window recorded the request
C34_Witness ==
    \E p \in ShortenProcs :
        /\ sh[p].pc = "thrown"
        /\ sh[p].err = "url_not_found"
        /\ users # <<>>
        /\ sh[p].phoneNumber \in DOMAIN rateLimitStore
        /\ rateLimitStore[sh[p].phoneNumber] # <<>>

\* C35: GET /api/stats/{code} answers 200 with statistics only for a code
\* for which getLinkByShortCode returns a link; a deactivated link has no
\* statistics.
C35_StatsOnlyForActive ==
    (pg.route = "stats" /\ pg.status = 200) =>
        getLinkByShortCode(pg.shortCode, TRUE) # 0

\* ------------------------------------------------------------------ /stats
\* String.prototype.toLowerCase on a code written as base64url indices:
\* A-Z (0..25) become a-z (26..51), every other character stays
codeToLowerCase(code) ==
    [i \in DOMAIN code |-> IF code[i] < 26 THEN code[i] + 26 ELSE code[i]]

\* the message '/stats ' + code: command = text.toLowerCase().trim(), it
\* starts with '/stats ', and shortCode = command.replace('/stats ',
\* '').trim() is the lowered code; getLinkStats(shortCode), then 'Link not
\* found' (404 here) or the analytics (200)
StatsCommand(code, ok) ==
    /\ LET shortCode == codeToLowerCase(code)
           stats == getLinkStats(shortCode, ok, 0)
       IN  pg' = [NoPage EXCEPT
                    !.route = "/stats", !.asked = code, !.shortCode = shortCode,
                    !.status = IF stats.found THEN 200 ELSE 404,
                    !.stats = stats]
    /\ UNCHANGED <<schemaVars, bot, server, rq, requests, storeVars, clickVars,
                   shortenVars, gateVars, ev>>

\* creations, and '/stats' sent with a code that a reply reported, the store
\* answering
NextCommand ==
    \/ NextShorten
    \/ \E p \in ShortenProcs :
           /\ sh[p].reply.text = "link_shortened"
           /\ StatsCommand(sh[p].reply.code, TRUE)

SpecCommand == InitShorten /\ [][NextCommand]_vars

\* C36: '/stats c' for a code c that a reply to a successful creation
\* reported looks up exactly c and, c being the code of one stored link,
\* replies with the analytics of that link.
C36_StatsFindsReportedCode ==
    pg.route = "/stats" =>
        /\ pg.shortCode = pg.asked
        /\ Single(LinksWithCode(pg.asked)) # 0 =>
               /\ pg.status = 200
               /\ pg.stats.short_code = pg.asked

\* ------------------------------------------------------------- connection
\* DisconnectReason.loggedOut
loggedOut == 401

\* status codes a close can carry: logged out, timed out, connection closed,
\* restart required
CloseCodes == {loggedOut, 408, 428, 515}

\* lastDisconnect.error of a close: a Boom with a status code, or another
\* error or none (isBoom false)
CloseErrors ==
    {[isBoom |-> TRUE, statusCode |-> c] : c \in CloseCodes} \cup {NoClose}

\* (lastDisconnect?.error instanceof Boom)?.output?.statusCode: instanceof
\* gives a boolean, a boolean has no property `output`, and ?.statusCode of
\* undefined is undefined (0 here) whatever the error is
statusCodeRead(error) ==
    LET isBoom == error.isBoom
        output == IF isBoom \in BOOLEAN THEN 0 ELSE isBoom.output
    IN  IF output = 0 THEN 0 ELSE output.statusCode

shouldReconnect(error) == statusCodeRead(error) # loggedOut

MaxCloses == 2

\* the connection.update handler on connection === 'close': connectToWhatsApp
\* is called again when shouldReconnect
ConnectionClose(error) ==
    /\ bot.closes < MaxCloses
    /\ bot' = [bot EXCEPT
                 !.closes = @ + 1,
                 !.lastClose = error,
                 !.reconnects = IF shouldReconnect(error) THEN 1 ELSE 0,
                 !.connects = IF shouldReconnect(error) THEN @ + 1 ELSE @]
    /\ UNCHANGED <<schemaVars, storeVars, clickVars, shortenVars, gateVars, ev, webVars>>

\* --------------------------------------------------------- handleMessage
\* message texts: one with a URL, a reply of the bot (it holds a short URL),
\* the commands, a greeting, and a text that is none of these
Texts == {"url", "reply", "/stats code", "/mylinks", "/help", "hi", "other"}

\* text.match(urlRegex()) finds a URL
ContainsUrl(text) == text \in {"url", "reply"}

Jids == {"status@broadcast", "2348010001@s.whatsapp.net"}

EventsIn ==
    [hasMessage : BOOLEAN, remoteJid : Jids, fromMe : BOOLEAN,
     type : {"notify", "append"}, text : Texts]

\* a variant that does not look at key.fromMe
skipsWithoutFromMe(event) ==
    \/ ~event.hasMessage
    \/ event.remoteJid = "status@broadcast"
    \/ event.type # "notify"

\* the two early returns of the handler
skips(event) ==
    \/ ~event.hasMessage
    \/ event.remoteJid = "status@broadcast"
    \/ event.fromMe
    \/ event.type # "notify"

\* the LinkService operation the handler calls for a text, if any
calledFor(text) ==
    IF ContainsUrl(text) THEN "shortenUrl"
    ELSE IF text = "/stats code" THEN "getLinkStats"
    ELSE IF text = "/mylinks" THEN "getUserLinks"
    ELSE ""

\* the replies the handler sends for a text: one in every branch (the catch
\* included), none for a text that matches no branch
sentFor(text) == IF text = "other" THEN 0 ELSE 1

\* the handler of messages.upsert as a dispatcher: it returns at once for a
\* skipped event, otherwise it calls the operation of the text's branch
\* (modelled by ShortenStart.., StatsCommand, MyLinks) and sends its reply
HandleMessage(event) ==
    /\ bot' = [bot EXCEPT
                 !.event = event,
                 !.called = IF skips(event) THEN "" ELSE calledFor(event.text),
                 !.sent = IF skips(event) THEN 0 ELSE sentFor(event.text)]
    /\ UNCHANGED <<schemaVars, storeVars, clickVars, shortenVars, gateVars, ev, webVars>>

NextBot ==
    \/ \E error \in CloseErrors : ConnectionClose(error)
    \/ \E event \in EventsIn : HandleMessage(event)

SpecBot == InitShorten /\ [][NextBot]_vars

\* C37: after a close whose status code is DisconnectReason.loggedOut no
\* reconnect is started, and after any other close exactly one is started.
C37_ReconnectUnlessLoggedOut ==
    bot.closes > 0 =>
        bot.reconnects =
            IF bot.lastClose.isBoom /\ bot.lastClose.statusCode = loggedOut
            THEN 0 ELSE 1

\* C38: for an inbound event without message body, from status@broadcast,
\* marked fromMe or of a type other than 'notify', the handler sends no
\* reply and calls no LinkService operation.
C38_SkippedEventsDoNothing ==
    ( \/ ~bot.event.hasMessage
      \/ bot.event.remoteJid = "status@broadcast"
      \/ bot.event.fromMe
      \/ bot.event.type # "notify" ) =>
          bot.sent = 0 /\ bot.called = ""

\* the bot's own reply with a short URL came back as a new message of a chat
\* and was skipped
C38_Witness ==
    /\ bot.event.hasMessage
    /\ bot.event.remoteJid = "2348010001@s.whatsapp.net"
    /\ bot.event.fromMe
    /\ bot.event.type = "notify"
    /\ bot.event.text = "reply"
    /\ bot.sent = 0 /\ bot.called = ""

\* ------------------------------------------------- rate specification
\* rate checks of two identities (the URL is one the gate denies after the
\* rate check, so each call is a single step) while time passes
InitRate == InitGate

NextRate ==
    \/ \E p \in EvalProcs, i \in Identities : EvalStart(p, "blocked", i)
    \/ Tick(HourMs - 1)

SpecRate == InitRate /\ [][NextRate]_vars

\* the window of an identity (an identity without an entry has none)
Window(store, phoneNumber) ==
    IF phoneNumber \in DOMAIN store THEN store[phoneNumber] ELSE <<>>

\* C39: a checkRateLimit call for an identity leaves the rate-limit window
\* of every other identity unchanged.
C39_OtherWindowsUnchanged ==
    [][\A p \in DOMAIN ev, B \in Identities :
           ( /\ ev'[p] # ev[p]
             /\ ev[p].pc \in {"idle", "done"}
             /\ ev'[p].phoneNumber # B ) =>
               /\ Window(rateLimitStore', B) = Window(rateLimitStore, B)
               /\ B \in DOMAIN rateLimitStore' <=> B \in DOMAIN rateLimitStore]_vars

\* one identity has filled its window and the other identity, checked after
\* it, was let through with a window of its own
C39_Witness ==
    \E p \in EvalProcs, A \in Identities :
        /\ A \in DOMAIN rateLimitStore
        /\ Len(rateLimitStore[A]) = RateLimit
        /\ ev[p].pc = "done" /\ ev[p].phoneNumber # A /\ ev[p].rateOk
        /\ Len(rateLimitStore[ev[p].phoneNumber]) = 1
        /\ Len(passed[A]) = RateLimit

====
